---- MODULE Spec2Model ----
(***************************************************************************)
(* Model of scripts/release.sh, the release version orchestrator.          *)
(*                                                                         *)
(* Text (version strings, descriptor files) is modelled as sequences of    *)
(* one-character strings, so that the regular expression of                *)
(* validate_version, the sed substitutions and the awk/printf encoding     *)
(* are computed the way the script computes them.                          *)
(***************************************************************************)
EXTENDS Integers, Sequences, FiniteSets, TLC

(***************************************************************************)
(* Characters and small text helpers                                       *)
(***************************************************************************)
Q == "\""

NL == "\n"

DigitChars == {"0", "1", "2", "3", "4", "5", "6", "7", "8", "9"}

LetterChars ==
    {"a", "b", "c", "d", "e", "f", "g", "h", "i", "j", "k", "l", "m",
     "n", "o", "p", "q", "r", "s", "t", "u", "v", "w", "x", "y", "z",
     "A", "B", "C", "D", "E", "F", "G", "H", "I", "J", "K", "L", "M",
     "N", "O", "P", "Q", "R", "S", "T", "U", "V", "W", "X", "Y", "Z"}

DigitValue(c) ==
    CASE c = "0" -> 0 [] c = "1" -> 1 [] c = "2" -> 2 [] c = "3" -> 3
      [] c = "4" -> 4 [] c = "5" -> 5 [] c = "6" -> 6 [] c = "7" -> 7
      [] c = "8" -> 8 [] c = "9" -> 9

DigitChar(d) ==
    CASE d = 0 -> "0" [] d = 1 -> "1" [] d = 2 -> "2" [] d = 3 -> "3"
      [] d = 4 -> "4" [] d = 5 -> "5" [] d = 6 -> "6" [] d = 7 -> "7"
      [] d = 8 -> "8" [] d = 9 -> "9"

\* t occurs in s starting at position i
MatchAt(s, i, t) ==
    /\ i >= 1
    /\ i + Len(t) - 1 <= Len(s)
    /\ \A k \in 1..Len(t) : s[i + k - 1] = t[k]

Contains(s, t) == \E i \in 1..Len(s) : MatchAt(s, i, t)

Min(S) == CHOOSE x \in S : \A y \in S : x <= y

Max(S) == CHOOSE x \in S : \A y \in S : x >= y

RECURSIVE Concat(_)
Concat(ss) == IF ss = << >> THEN << >> ELSE Head(ss) \o Concat(Tail(ss))

(***************************************************************************)
(* validate_version: [[ $version =~                                        *)
(*     ^[0-9]+\.[0-9]+\.[0-9]+(-[a-zA-Z0-9.]+)?$ ]]                         *)
(* The expression is run as the automaton it compiles to: state names      *)
(* say which part of the expression is being matched, 1 = at least one     *)
(* character of that part consumed.                                        *)
(***************************************************************************)
RegexStep(q, c) ==
    CASE q = "major0" -> IF c \in DigitChars THEN "major1" ELSE "fail"
      [] q = "major1" -> IF c \in DigitChars THEN "major1"
                         ELSE IF c = "." THEN "minor0" ELSE "fail"
      [] q = "minor0" -> IF c \in DigitChars THEN "minor1" ELSE "fail"
      [] q = "minor1" -> IF c \in DigitChars THEN "minor1"
                         ELSE IF c = "." THEN "patch0" ELSE "fail"
      [] q = "patch0" -> IF c \in DigitChars THEN "patch1" ELSE "fail"
      [] q = "patch1" -> IF c \in DigitChars THEN "patch1"
                         ELSE IF c = "-" THEN "label0" ELSE "fail"
      [] q = "label0" -> IF c \in LetterChars \cup DigitChars \cup {"."}
                         THEN "label1" ELSE "fail"
      [] q = "label1" -> IF c \in LetterChars \cup DigitChars \cup {"."}
                         THEN "label1" ELSE "fail"
      [] OTHER -> "fail"

RECURSIVE RegexRun(_, _, _)
RegexRun(s, i, q) ==
    IF i > Len(s) THEN q ELSE RegexRun(s, i + 1, RegexStep(q, s[i]))

\* variant: the expression without its closing anchor '$'
validate_version_unanchored(version) ==
    \E k \in 0..Len(version) :
        RegexRun(SubSeq(version, 1, k), 1, "major0") \in {"patch1", "label1"}

\* TRUE iff validate_version returns 0
validate_version(version) ==
    RegexRun(version, 1, "major0") \in {"patch1", "label1"}

(***************************************************************************)
(* update_android_version, the version code:                               *)
(*   echo "$version" | sed 's/-.*//' |                                     *)
(*       awk -F. '{printf "%d%02d%02d", $1, $2, $3}'                       *)
(***************************************************************************)
\* sed 's/-.*//' : drop everything from the first '-' on
SedStripLabel(s) ==
    IF \E i \in 1..Len(s) : s[i] = "-"
    THEN SubSeq(s, 1, Min({i \in 1..Len(s) : s[i] = "-"}) - 1)
    ELSE s

\* awk -F. : the fields of a record, split at every '.'
RECURSIVE AwkFields(_)
AwkFields(s) ==
    IF \E i \in 1..Len(s) : s[i] = "."
    THEN LET d == Min({i \in 1..Len(s) : s[i] = "."})
         IN  <<SubSeq(s, 1, d - 1)>> \o AwkFields(SubSeq(s, d + 1, Len(s)))
    ELSE <<s>>

\* awk's string-to-number conversion: the value of the leading digits
RECURSIVE AwkNum(_, _)
AwkNum(s, acc) ==
    IF s = << >> \/ Head(s) \notin DigitChars THEN acc
    ELSE AwkNum(Tail(s), acc * 10 + DigitValue(Head(s)))

AwkField(fields, k) == IF k <= Len(fields) THEN fields[k] ELSE << >>

\* printf "%d"
RECURSIVE FmtD(_)
FmtD(n) == IF n < 10 THEN <<DigitChar(n)>>
           ELSE FmtD(n \div 10) \o <<DigitChar(n % 10)>>

\* variant: printf "%d", no padding
Fmt02DUnpadded(n) == FmtD(n)

\* printf "%02d": at least two digits, zero padded, never truncated
Fmt02D(n) == IF n < 10 THEN <<"0">> \o FmtD(n) ELSE FmtD(n)

VersionCodeOf(version) ==
    LET f == AwkFields(SedStripLabel(version))
    IN  FmtD(AwkNum(AwkField(f, 1), 0))
          \o Fmt02D(AwkNum(AwkField(f, 2), 0))
          \o Fmt02D(AwkNum(AwkField(f, 3), 0))

(***************************************************************************)
(* Descriptor files.  A file is a sequence of lines, a line a sequence of  *)
(* characters.                                                             *)
(***************************************************************************)
VersionKey == <<Q, "v", "e", "r", "s", "i", "o", "n", Q>>

\* "version": " -- the fixed head of the sed pattern of update_package_json
VersionPat == VersionKey \o <<":", " ", Q>>

\* versionName " -- the fixed head of the second sed pattern
VersionNamePat ==
    <<"v", "e", "r", "s", "i", "o", "n", "N", "a", "m", "e", " ", Q>>

\* versionCode  -- the fixed head of the first sed pattern (with the blank)
VersionCodePat ==
    <<"v", "e", "r", "s", "i", "o", "n", "C", "o", "d", "e", " ">>

\* sed "s/<pat>.*\"/<pat>$version\"/" on one line: the leftmost place where
\* pat is followed, anywhere later on the line, by a double quote; '.*' is
\* greedy, so the match runs to the LAST double quote of the line.
SedQuotedLine(line, pat, version) ==
    LET starts == {i \in 1..Len(line) :
                      /\ MatchAt(line, i, pat)
                      /\ \E j \in (i + Len(pat))..Len(line) : line[j] = Q}
    IN  IF starts = {} THEN line
        ELSE LET i == Min(starts)
                 j == Max({k \in (i + Len(pat))..Len(line) : line[k] = Q})
             IN  SubSeq(line, 1, i - 1) \o pat \o version \o <<Q>>
                   \o SubSeq(line, j + 1, Len(line))

\* sed "s/versionCode [0-9]*/versionCode $version_code/" on one line
SedVersionCodeLine(line, version_code) ==
    LET starts == {i \in 1..Len(line) : MatchAt(line, i, VersionCodePat)}
    IN  IF starts = {} THEN line
        ELSE LET i == Min(starts)
                 b == i + Len(VersionCodePat)
                 e == Max({k \in (b - 1)..Len(line) :
                              \A m \in b..k : line[m] \in DigitChars})
             IN  SubSeq(line, 1, i - 1) \o VersionCodePat \o version_code
                   \o SubSeq(line, e + 1, Len(line))

\* sed -i "s/\"version\": \".*\"/\"version\": \"$version\"/" "$PACKAGE_JSON"
SedPackageJson(file, version) ==
    [k \in 1..Len(file) |-> SedQuotedLine(file[k], VersionPat, version)]

\* the two sed -i commands of update_android_version, in their order
SedBuildGradle(file, version, version_code) ==
    LET f1 == [k \in 1..Len(file) |->
                  SedVersionCodeLine(file[k], version_code)]
    IN  [k \in 1..Len(f1) |-> SedQuotedLine(f1[k], VersionNamePat, version)]

\* grep '"version"' "$PACKAGE_JSON" : status 0 iff some line matches
GrepVersion(file) == \E k \in 1..Len(file) : Contains(file[k], VersionKey)

(***************************************************************************)
(* jq --arg version "$version" '.version = $version' "$PACKAGE_JSON"       *)
(* jq parses the whole file as JSON, sets the top-level key and prints the *)
(* object again in its own layout (one member per line, two blanks of      *)
(* indentation).  The manifests of the model are objects with string       *)
(* members; anything else is a parse error.                                *)
(***************************************************************************)
RECURSIVE JoinLines(_)
JoinLines(file) ==
    IF file = << >> THEN << >>
    ELSE Head(file) \o <<NL>> \o JoinLines(Tail(file))

RECURSIVE SkipWs(_, _)
SkipWs(t, i) ==
    IF i <= Len(t) /\ t[i] \in {" ", NL} THEN SkipWs(t, i + 1) ELSE i

CharAt(t, i) == IF i >= 1 /\ i <= Len(t) THEN t[i] ELSE "EOF"

JsonFail == [ok |-> FALSE, members |-> << >>]

\* a JSON string starting at i: [ok, val, next]
JsonString(t, i) ==
    IF CharAt(t, i) = Q /\ \E j \in (i + 1)..Len(t) : t[j] = Q
    THEN LET j == Min({k \in (i + 1)..Len(t) : t[k] = Q})
         IN  [ok |-> TRUE, val |-> SubSeq(t, i + 1, j - 1), next |-> j + 1]
    ELSE [ok |-> FALSE, val |-> << >>, next |-> i]

\* an object keeps one member per key: a repeated key keeps its first
\* place and takes the last value
JsonPut(members, key, val) ==
    IF \E k \in 1..Len(members) : members[k][1] = key
    THEN [k \in 1..Len(members) |->
             IF members[k][1] = key THEN <<key, val>> ELSE members[k]]
    ELSE Append(members, <<key, val>>)

RECURSIVE JsonMembers(_, _, _)
JsonMembers(t, i, acc) ==
    LET key == JsonString(t, i)
        c   == SkipWs(t, key.next)
        val == JsonString(t, SkipWs(t, c + 1))
        e   == SkipWs(t, val.next)
        got == JsonPut(acc, key.val, val.val)
    IN  IF ~key.ok \/ CharAt(t, c) # ":" \/ ~val.ok THEN JsonFail
        ELSE IF CharAt(t, e) = "," THEN JsonMembers(t, SkipWs(t, e + 1), got)
        ELSE IF CharAt(t, e) = "}" /\ SkipWs(t, e + 1) > Len(t)
             THEN [ok |-> TRUE, members |-> got]
        ELSE JsonFail

JqParse(file) ==
    LET t == JoinLines(file)
        o == SkipWs(t, 1)
        m == SkipWs(t, o + 1)
    IN  IF CharAt(t, o) # "{" THEN JsonFail
        ELSE IF CharAt(t, m) = "}"
             THEN IF SkipWs(t, m + 1) > Len(t)
                  THEN [ok |-> TRUE, members |-> << >>] ELSE JsonFail
        ELSE JsonMembers(t, m, << >>)

JqPrint(members) ==
    <<<<"{">>>>
      \o [k \in 1..Len(members) |->
             <<" ", " ", Q>> \o members[k][1] \o <<Q, ":", " ", Q>>
               \o members[k][2] \o <<Q>>
               \o (IF k < Len(members) THEN <<",">> ELSE << >>)]
      \o <<<<"}">>>>

VersionName == <<"v", "e", "r", "s", "i", "o", "n">>

\* [ok, out]: ok = FALSE is a jq failure (nothing usable is printed)
JqSetVersion(file, version) ==
    LET p == JqParse(file)
    IN  IF p.ok
        THEN [ok |-> TRUE,
              out |-> JqPrint(JsonPut(p.members, VersionName, version))]
        ELSE [ok |-> FALSE, out |-> << >>]

(***************************************************************************)
(* Command line words, as main's case statement sees them                  *)
(***************************************************************************)
OptHelpShort == <<"-", "h">>

OptHelp == <<"-", "-", "h", "e", "l", "p">>

OptSkipTests == <<"-", "-", "s", "k", "i", "p", "-", "t", "e", "s", "t", "s">>

OptSkipBuild == <<"-", "-", "s", "k", "i", "p", "-", "b", "u", "i", "l", "d">>

OptPrerelease == <<"-", "-", "p", "r", "e", "r", "e", "l", "e", "a", "s", "e">>

OptDryRun == <<"-", "-", "d", "r", "y", "-", "r", "u", "n">>

OptForce == <<"-", "-", "f", "o", "r", "c", "e">>

\* main, lines 456-515: the while/case loop over "$@".  The result carries
\* the shell variables it sets and how the loop ended.
RECURSIVE ParseArgs(_, _)
ParseArgs(argv, st) ==
    IF argv = << >>
    THEN IF st.VERSION = << >> THEN [st EXCEPT !.status = "no_version"]
         ELSE st
    ELSE LET a == Head(argv)
         IN  CASE a = OptHelpShort \/ a = OptHelp ->
                      [st EXCEPT !.status = "help"]
               [] a = OptSkipTests ->
                      ParseArgs(Tail(argv), [st EXCEPT !.SKIP_TESTS = TRUE])
               [] a = OptSkipBuild ->
                      ParseArgs(Tail(argv), [st EXCEPT !.SKIP_BUILD = TRUE])
               [] a = OptPrerelease ->
                      ParseArgs(Tail(argv), [st EXCEPT !.PRERELEASE = TRUE])
               [] a = OptDryRun ->
                      ParseArgs(Tail(argv), [st EXCEPT !.DRY_RUN = TRUE])
               [] a = OptForce ->
                      ParseArgs(Tail(argv), [st EXCEPT !.FORCE = TRUE])
               [] OTHER ->
                      IF a # << >> /\ Head(a) = "-"
                      THEN [st EXCEPT !.status = "unknown_option"]
                      ELSE IF st.VERSION = << >>
                           THEN ParseArgs(Tail(argv), [st EXCEPT !.VERSION = a])
                           ELSE [st EXCEPT !.status = "multiple_versions"]

ArgDefaults ==
    [VERSION |-> << >>, SKIP_TESTS |-> FALSE, SKIP_BUILD |-> FALSE,
     PRERELEASE |-> FALSE, DRY_RUN |-> FALSE, FORCE |-> FALSE,
     status |-> "ok"]

(***************************************************************************)
(* Bounds and inputs of the pipeline specification                         *)
(***************************************************************************)
\* number of invocations of the script in one behaviour
MaxInvocations == 2

V_1_0_1 == <<"1", ".", "0", ".", "1">>

V_2_1_0 == <<"2", ".", "1", ".", "0">>

V_1_0 == <<"1", ".", "0">>

PipelineVersions == {V_1_0_1, V_2_1_0, V_1_0}

AllOptions == <<OptSkipTests, OptSkipBuild, OptPrerelease, OptDryRun, OptForce>>

\* the command lines "<version> [options]" with the options of subset S
ArgvOf(version, S) ==
    <<version>>
      \o Concat([k \in 1..Len(AllOptions) |->
                    IF AllOptions[k] \in S THEN <<AllOptions[k]>> ELSE << >>])

CmdLines ==
    {ArgvOf(v, S) : v \in PipelineVersions,
                    S \in SUBSET {AllOptions[k] : k \in 1..Len(AllOptions)}}

ManifestBase ==
    << <<"{">>,
       <<" ", " ", "\"", "n", "a", "m", "e", "\"", ":", " ", "\"", "a", "p", "p", "\"", ",">>,
       <<" ", " ", "\"", "v", "e", "r", "s", "i", "o", "n", "\"", ":", " ", "\"", "0", ".", "9", ".", "0", "\"">>,
       <<"}">> >>

GradleBase ==
    << <<"v", "e", "r", "s", "i", "o", "n", "C", "o", "d", "e", " ", "1">>,
       <<"v", "e", "r", "s", "i", "o", "n", "N", "a", "m", "e", " ", "\"", "1", ".", "0", "\"">> >>

Branches == {"main", "master", "feature"}

\* replies typed at a read -n 1 prompt; "EOF" is a closed standard input
Replies == {"y", "Y", "n", "EOF"}

\* exit statuses of a failing git command (1: refused, 128: fatal)
GitFailStatus == {1, 128}

(***************************************************************************)
(* State                                                                   *)
(***************************************************************************)
VARIABLES
    pc,                   \* the step of release.sh about to run
    exit_code,            \* exit status of the invocation, -1 while running
    log,                  \* what the invocation printed and did, in order
    start,                \* the repository when the invocation started
    invocations,          \* how many invocations have been started
    last_applied,         \* the descriptor mutation the last finished
                          \* invocation completed, if any
    parked,               \* the shell state of a second process of the
                          \* script that is not the one taking steps now
    ARGV,                 \* "$@", the words the script was started with
    VERSION, SKIP_TESTS, SKIP_BUILD, PRERELEASE, DRY_RUN, FORCE,
    USE_JQ, CURRENT_BRANCH, version_code,
    PACKAGE_JSON,         \* content of package.json in the working tree
    ANDROID_BUILD_GRADLE, \* content of android/app/build.gradle
    other_file,           \* content of some other tracked file
    untracked,            \* an untracked file exists
    branch,               \* the checked-out branch
    index,                \* the staged tree
    commits,              \* the history of the branch; HEAD is the last
    tags,                 \* local annotated tags
    remote_head,          \* the commit origin has for the branch
    remote_tags           \* the tags origin has

ctlVars == <<pc, exit_code, log, start, invocations, last_applied, parked>>

argVars ==
    <<ARGV, VERSION, SKIP_TESTS, SKIP_BUILD, PRERELEASE, DRY_RUN, FORCE>>

envVars == <<USE_JQ, CURRENT_BRANCH, version_code>>

fileVars == <<PACKAGE_JSON, ANDROID_BUILD_GRADLE>>

treeVars == <<other_file, untracked, branch>>

gitVars == <<index, commits, tags>>

remoteVars == <<remote_head, remote_tags>>

repoVars == <<fileVars, treeVars, gitVars, remoteVars>>

vars == <<ctlVars, argVars, envVars, repoVars>>

\* everything an invocation could change in the repository or on origin
Repo ==
    [pkg |-> PACKAGE_JSON, gradle |-> ANDROID_BUILD_GRADLE,
     other |-> other_file, untracked |-> untracked, index |-> index,
     commits |-> commits, tags |-> tags,
     remote_head |-> remote_head, remote_tags |-> remote_tags]

HeadTree == commits[Len(commits)]

\* variant: the tag is named after the numeric triple, without the label
TagNameOfTriple(version) == <<"v">> \o SedStripLabel(version)

TagName(version) == <<"v">> \o version

\* git rev-parse "$tag" succeeds
TagResolves(name, tagset) == \E t \in tagset : t.name = name

\* git status -s prints something
StatusDirty ==
    \/ index # HeadTree
    \/ PACKAGE_JSON # index.pkg
    \/ ANDROID_BUILD_GRADLE # index.gradle
    \/ other_file # index.other
    \/ untracked

\* states of the other tracked file and of untracked files at the start
InitDirt ==
    {[other |-> "base", staged |-> "base", untracked |-> FALSE],
     [other |-> "edit", staged |-> "base", untracked |-> FALSE],
     [other |-> "edit", staged |-> "edit", untracked |-> FALSE],
     [other |-> "base", staged |-> "base", untracked |-> TRUE]}

InitRepo(files, branches, dirts) ==
    /\ \E f \in files :
          /\ PACKAGE_JSON = f[1]
          /\ ANDROID_BUILD_GRADLE = f[2]
    /\ \E d \in dirts :
          /\ other_file = d.other
          /\ untracked = d.untracked
          /\ index = [pkg |-> PACKAGE_JSON, gradle |-> ANDROID_BUILD_GRADLE,
                      other |-> d.staged]
    /\ commits = <<[pkg |-> PACKAGE_JSON, gradle |-> ANDROID_BUILD_GRADLE,
                    other |-> "base"]>>
    /\ branch \in branches
    /\ tags = {}
    /\ remote_head = 1
    /\ remote_tags = {}

NoneApplied ==
    [version |-> << >>, jq |-> FALSE, pkg |-> << >>, gradle |-> << >>]

\* the state of one process of the script: its position, its output and
\* its shell variables
Shell ==
    [pc |-> pc, exit_code |-> exit_code, log |-> log, start |-> start,
     ARGV |-> ARGV, VERSION |-> VERSION, SKIP_TESTS |-> SKIP_TESTS,
     SKIP_BUILD |-> SKIP_BUILD, PRERELEASE |-> PRERELEASE,
     DRY_RUN |-> DRY_RUN, FORCE |-> FORCE, USE_JQ |-> USE_JQ,
     CURRENT_BRANCH |-> CURRENT_BRANCH, version_code |-> version_code]

InitIdle ==
    /\ pc = "idle"
    /\ exit_code = -1
    /\ log = << >>
    /\ ARGV = << >>
    /\ VERSION = << >>
    /\ SKIP_TESTS = FALSE
    /\ SKIP_BUILD = FALSE
    /\ PRERELEASE = FALSE
    /\ DRY_RUN = FALSE
    /\ FORCE = FALSE
    /\ USE_JQ = FALSE
    /\ CURRENT_BRANCH = ""
    /\ version_code = << >>
    /\ start = Repo
    /\ invocations = 0
    /\ last_applied = NoneApplied
    /\ parked = Shell

Init ==
    /\ InitRepo({<<ManifestBase, GradleBase>>}, Branches, InitDirt)
    /\ InitIdle

(***************************************************************************)
(* Steps of the script                                                     *)
(***************************************************************************)
\* go on to the next step, having printed / done the events
Goto(next, events) ==
    /\ pc' = next
    /\ log' = log \o events
    /\ UNCHANGED <<exit_code, start, invocations, last_applied, parked>>

\* exit N, or the exit that set -e makes when a command fails
Exit(code, events) ==
    /\ pc' = "done"
    /\ exit_code' = code
    /\ log' = log \o events
    /\ UNCHANGED <<start, invocations, last_applied, parked>>

\* main, lines 456-519, started with the words argv
MainWith(pool) ==
    /\ pc = "idle"
    /\ invocations < MaxInvocations
    /\ invocations' = invocations + 1
    /\ UNCHANGED <<last_applied, parked>>
    /\ \E argv \in pool :
          LET a == ParseArgs(argv, ArgDefaults)
          IN  /\ ARGV' = argv
              /\ VERSION' = a.VERSION
              /\ SKIP_TESTS' = a.SKIP_TESTS
              /\ SKIP_BUILD' = a.SKIP_BUILD
              /\ PRERELEASE' = a.PRERELEASE
              /\ DRY_RUN' = a.DRY_RUN
              /\ FORCE' = a.FORCE
              /\ start' = Repo
              /\ CASE a.status = "help" ->
                        /\ pc' = "done" /\ exit_code' = 0
                        /\ log' = <<"usage">>
                   [] a.status = "unknown_option" ->
                        /\ pc' = "done" /\ exit_code' = 1
                        /\ log' = <<"error:Unknown option", "usage">>
                   [] a.status = "multiple_versions" ->
                        /\ pc' = "done" /\ exit_code' = 1
                        /\ log' = <<"error:Multiple versions specified",
                                    "usage">>
                   [] a.status = "no_version" ->
                        /\ pc' = "done" /\ exit_code' = 1
                        /\ log' = <<"error:Version number required", "usage">>
                   [] OTHER ->
                        /\ pc' = "validate_version" /\ exit_code' = -1
                        /\ log' = << >>
    /\ USE_JQ' = FALSE
    /\ CURRENT_BRANCH' = ""
    /\ version_code' = << >>
    /\ UNCHANGED repoVars

Main == MainWith(CmdLines)

\* variant: --force lets any version string through
ValidateVersionUnlessForced ==
    /\ pc = "validate_version"
    /\ IF FORCE = TRUE \/ validate_version(VERSION)
       THEN Goto("check_dependencies", <<"version_valid">>)
       ELSE Exit(1, <<"error:Invalid version format",
                      "info:Version must follow semantic versioning (e.g., 1.0.0, 1.2.3-beta)">>)
    /\ UNCHANGED <<argVars, envVars, repoVars>>

\* perform_release, lines 375-378
ValidateVersion ==
    /\ pc = "validate_version"
    /\ IF validate_version(VERSION)
       THEN Goto("check_dependencies", <<"version_valid">>)
       ELSE Exit(1, <<"error:Invalid version format",
                      "info:Version must follow semantic versioning (e.g., 1.0.0, 1.2.3-beta)">>)
    /\ UNCHANGED <<argVars, envVars, repoVars>>

\* check_dependencies, lines 100-132; which tools are installed is the
\* environment's choice
CheckDependencies ==
    /\ pc = "check_dependencies"
    /\ \E jq \in BOOLEAN, missing_deps \in BOOLEAN :
          /\ USE_JQ' = jq
          /\ IF missing_deps
             THEN Exit(1, <<"error:Missing required dependencies">>)
             ELSE Goto("check_git_status", <<"dependencies_found">>)
    /\ UNCHANGED <<argVars, CURRENT_BRANCH, version_code, repoVars>>

\* variant: a dry run does not ask about uncommitted changes
CheckGitStatusQuietDryRun ==
    /\ pc = "check_git_status"
    /\ IF StatusDirty
       THEN IF FORCE # TRUE /\ DRY_RUN # TRUE
            THEN \E REPLY \in Replies :
                    CASE REPLY = "EOF" ->
                           Exit(1, <<"warning:You have uncommitted changes",
                                     "prompt:dirty", "errexit:read">>)
                      [] REPLY \in {"y", "Y"} ->
                           Goto("check_branch",
                                <<"warning:You have uncommitted changes",
                                  "prompt:dirty", "reply:yes">>)
                      [] OTHER ->
                           Exit(1, <<"warning:You have uncommitted changes",
                                     "prompt:dirty", "reply:no",
                                     "error:Aborted by user">>)
            ELSE Goto("check_branch",
                      <<"warning:You have uncommitted changes">>)
       ELSE Goto("check_branch", <<"Working directory is clean">>)
    /\ UNCHANGED <<argVars, envVars, repoVars>>

\* check_git_status, lines 156-172: uncommitted changes
CheckGitStatus ==
    /\ pc = "check_git_status"
    /\ IF StatusDirty
       THEN IF FORCE # TRUE
            THEN \E REPLY \in Replies :
                    CASE REPLY = "EOF" ->
                           Exit(1, <<"warning:You have uncommitted changes",
                                     "prompt:dirty", "errexit:read">>)
                      [] REPLY \in {"y", "Y"} ->
                           Goto("check_branch",
                                <<"warning:You have uncommitted changes",
                                  "prompt:dirty", "reply:yes">>)
                      [] OTHER ->
                           Exit(1, <<"warning:You have uncommitted changes",
                                     "prompt:dirty", "reply:no",
                                     "error:Aborted by user">>)
            ELSE Goto("check_branch",
                      <<"warning:You have uncommitted changes">>)
       ELSE Goto("check_branch", <<"Working directory is clean">>)
    /\ UNCHANGED <<argVars, envVars, repoVars>>

\* variant: the branch prompt is issued even with --force
CheckBranchAsksAlways ==
    /\ pc = "check_branch"
    /\ CURRENT_BRANCH' = branch
    /\ IF branch # "main" /\ branch # "master"
       THEN \E REPLY \in Replies :
               CASE REPLY = "EOF" ->
                      Exit(1, <<"warning:Not on main/master branch",
                                "prompt:branch", "errexit:read">>)
                 [] REPLY \in {"y", "Y"} ->
                      Goto("check_tag_exists",
                           <<"warning:Not on main/master branch",
                             "prompt:branch", "reply:yes">>)
                 [] OTHER ->
                      Exit(1, <<"warning:Not on main/master branch",
                                "prompt:branch", "reply:no",
                                "error:Aborted by user">>)
       ELSE Goto("check_tag_exists", << >>)
    /\ UNCHANGED <<argVars, USE_JQ, version_code, repoVars>>

\* check_git_status, lines 174-189: current branch
CheckBranch ==
    /\ pc = "check_branch"
    /\ CURRENT_BRANCH' = branch
    /\ IF branch # "main" /\ branch # "master"
       THEN IF FORCE # TRUE
            THEN \E REPLY \in Replies :
                    CASE REPLY = "EOF" ->
                           Exit(1, <<"warning:Not on main/master branch",
                                     "prompt:branch", "errexit:read">>)
                      [] REPLY \in {"y", "Y"} ->
                           Goto("check_tag_exists",
                                <<"warning:Not on main/master branch",
                                  "prompt:branch", "reply:yes">>)
                      [] OTHER ->
                           Exit(1, <<"warning:Not on main/master branch",
                                     "prompt:branch", "reply:no",
                                     "error:Aborted by user">>)
            ELSE Goto("check_tag_exists",
                      <<"warning:Not on main/master branch">>)
       ELSE Goto("check_tag_exists", << >>)
    /\ UNCHANGED <<argVars, USE_JQ, version_code, repoVars>>

\* variant: --force also overrides the tag check
CheckTagExistsUnlessForced ==
    /\ pc = "check_tag_exists"
    /\ IF FORCE # TRUE /\ TagResolves(TagName(VERSION), tags)
       THEN Exit(1, <<"error:Tag already exists">>)
       ELSE Goto("confirm", <<"tag_free">>)
    /\ UNCHANGED <<argVars, envVars, repoVars>>

\* variant: the tag check also asks origin (git ls-remote)
CheckTagExistsOnOrigin ==
    /\ pc = "check_tag_exists"
    /\ IF TagResolves(TagName(VERSION), tags \cup remote_tags)
       THEN Exit(1, <<"error:Tag already exists">>)
       ELSE Goto("confirm", <<"tag_free">>)
    /\ UNCHANGED <<argVars, envVars, repoVars>>

\* check_tag_exists, lines 192-201
CheckTagExists ==
    /\ pc = "check_tag_exists"
    /\ IF TagResolves(TagName(VERSION), tags)
       THEN Exit(1, <<"error:Tag already exists">>)
       ELSE Goto("confirm", <<"tag_free">>)
    /\ UNCHANGED <<argVars, envVars, repoVars>>

\* variant: a declined confirmation is reported but the release goes on
ConfirmDeclineContinues ==
    /\ pc = "confirm"
    /\ IF DRY_RUN # TRUE /\ FORCE # TRUE
       THEN \E REPLY \in Replies :
               CASE REPLY = "EOF" ->
                      Exit(1, <<"summary", "prompt:release", "errexit:read">>)
                 [] REPLY \in {"y", "Y"} ->
                      Goto("dry_run",
                           <<"summary", "prompt:release", "reply:yes">>)
                 [] OTHER ->
                      Goto("dry_run", <<"summary", "prompt:release",
                                        "reply:no",
                                        "error:Release cancelled by user">>)
       ELSE Goto("dry_run", << >>)
    /\ UNCHANGED <<argVars, envVars, repoVars>>

\* perform_release, lines 389-406: summary and confirmation
Confirm ==
    /\ pc = "confirm"
    /\ IF DRY_RUN # TRUE /\ FORCE # TRUE
       THEN \E REPLY \in Replies :
               CASE REPLY = "EOF" ->
                      Exit(1, <<"summary", "prompt:release", "errexit:read">>)
                 [] REPLY \in {"y", "Y"} ->
                      Goto("dry_run",
                           <<"summary", "prompt:release", "reply:yes">>)
                 [] OTHER ->
                      Exit(1, <<"summary", "prompt:release",
                                "reply:no",
                                "error:Release cancelled by user">>)
       ELSE Goto("dry_run", << >>)
    /\ UNCHANGED <<argVars, envVars, repoVars>>

\* variant: the dry-run report is printed but the script does not exit
DryRunReportNoExit ==
    /\ pc = "dry_run"
    /\ IF DRY_RUN = TRUE
       THEN Goto("update_package_json",
                 <<"warning:DRY RUN MODE - No changes will be made",
                   "Dry run completed">>)
       ELSE Goto("update_package_json", << >>)
    /\ UNCHANGED <<argVars, envVars, repoVars>>

\* variant: the dry-run report does not end the script, which goes on to
\* the tests
DryRunReportThenTests ==
    /\ pc = "dry_run"
    /\ IF DRY_RUN = TRUE
       THEN Goto("run_tests",
                 <<"warning:DRY RUN MODE - No changes will be made",
                   "Dry run completed">>)
       ELSE Goto("update_package_json", << >>)
    /\ UNCHANGED <<argVars, envVars, repoVars>>

\* variant: the dry-run report ends with a failure status
DryRunReportFailing ==
    /\ pc = "dry_run"
    /\ IF DRY_RUN = TRUE
       THEN Exit(1, <<"warning:DRY RUN MODE - No changes will be made",
                      "Dry run completed">>)
       ELSE Goto("update_package_json", << >>)
    /\ UNCHANGED <<argVars, envVars, repoVars>>

\* perform_release, lines 408-421
DryRunReport ==
    /\ pc = "dry_run"
    /\ IF DRY_RUN = TRUE
       THEN Exit(0, <<"warning:DRY RUN MODE - No changes will be made",
                      "Dry run completed">>)
       ELSE Goto("update_package_json", << >>)
    /\ UNCHANGED <<argVars, envVars, repoVars>>

\* update_package_json, lines 207-233
UpdatePackageJson ==
    /\ pc = "update_package_json"
    /\ IF USE_JQ = TRUE
       THEN LET r == JqSetVersion(PACKAGE_JSON, VERSION)
            IN  IF r.ok
                THEN /\ PACKAGE_JSON' = r.out
                     /\ IF GrepVersion(r.out)
                        THEN Goto("update_android_version",
                                  <<"Updated package.json">>)
                        ELSE Exit(1, <<"Updated package.json", "errexit:grep">>)
                ELSE \* jq fails, set -e ends the script before the mv
                     /\ PACKAGE_JSON' = PACKAGE_JSON
                     /\ Exit(2, <<"errexit:jq">>)
       ELSE \E OSTYPE \in {"darwin", "linux-gnu"} :
               LET out == IF OSTYPE = "darwin"
                          THEN SedPackageJson(PACKAGE_JSON, VERSION)
                          ELSE SedPackageJson(PACKAGE_JSON, VERSION)
               IN  /\ PACKAGE_JSON' = out
                   /\ IF GrepVersion(out)
                      THEN Goto("update_android_version",
                                <<"Updated package.json">>)
                      ELSE Exit(1, <<"Updated package.json", "errexit:grep">>)
    /\ UNCHANGED <<argVars, envVars, ANDROID_BUILD_GRADLE, treeVars, gitVars,
                   remoteVars>>

\* variant: the stage also stages the files it has written (git add)
UpdateAndroidVersionStages ==
    /\ pc = "update_android_version"
    /\ version_code' = VersionCodeOf(VERSION)
    /\ \E OSTYPE \in {"darwin", "linux-gnu"} :
          ANDROID_BUILD_GRADLE' =
              SedBuildGradle(ANDROID_BUILD_GRADLE, VERSION, version_code')
    /\ index' = [index EXCEPT !.pkg = PACKAGE_JSON,
                              !.gradle = ANDROID_BUILD_GRADLE']
    /\ Goto("run_tests", <<"Updated Android build.gradle">>)
    /\ UNCHANGED <<argVars, USE_JQ, CURRENT_BRANCH, PACKAGE_JSON, treeVars,
                   commits, tags, remoteVars>>

\* update_android_version, lines 235-260
UpdateAndroidVersion ==
    /\ pc = "update_android_version"
    /\ version_code' = VersionCodeOf(VERSION)
    /\ \E OSTYPE \in {"darwin", "linux-gnu"} :
          ANDROID_BUILD_GRADLE' =
              IF OSTYPE = "darwin"
              THEN SedBuildGradle(ANDROID_BUILD_GRADLE, VERSION, version_code')
              ELSE SedBuildGradle(ANDROID_BUILD_GRADLE, VERSION, version_code')
    /\ Goto("run_tests", <<"Updated Android build.gradle">>)
    /\ UNCHANGED <<argVars, USE_JQ, CURRENT_BRANCH, PACKAGE_JSON, treeVars,
                   gitVars, remoteVars>>

\* variant: a failed test run is reported but does not end the script
RunTestsNoExit ==
    /\ pc = "run_tests"
    /\ IF SKIP_TESTS = TRUE
       THEN Goto("verify_build", <<"warning:Skipping tests (--skip-tests)">>)
       ELSE \E npm_test \in BOOLEAN :
               IF npm_test
               THEN Goto("verify_build", <<"All tests passed">>)
               ELSE Goto("verify_build", <<"error:Tests failed">>)
    /\ UNCHANGED <<argVars, envVars, repoVars>>

\* variant: skipped tests are not mentioned in the output
RunTestsSilentSkip ==
    /\ pc = "run_tests"
    /\ IF SKIP_TESTS = TRUE
       THEN Goto("verify_build", << >>)
       ELSE \E npm_test \in BOOLEAN :
               IF npm_test
               THEN Goto("verify_build", <<"All tests passed">>)
               ELSE Exit(1, <<"error:Tests failed">>)
    /\ UNCHANGED <<argVars, envVars, repoVars>>

\* run_tests, lines 266-282; the result of npm test is the environment's
RunTests ==
    /\ pc = "run_tests"
    /\ IF SKIP_TESTS = TRUE
       THEN Goto("verify_build", <<"warning:Skipping tests (--skip-tests)">>)
       ELSE \E npm_test \in BOOLEAN :
               IF npm_test
               THEN Goto("verify_build", <<"All tests passed">>)
               ELSE Exit(1, <<"error:Tests failed">>)
    /\ UNCHANGED <<argVars, envVars, repoVars>>

\* variant: a failed build check restores the descriptor files from HEAD
VerifyBuildRollback ==
    /\ pc = "verify_build"
    /\ IF SKIP_BUILD = TRUE
       THEN /\ Goto("git_add",
                    <<"warning:Skipping build verification (--skip-build)">>)
            /\ UNCHANGED fileVars
       ELSE \E gradlew \in BOOLEAN :
               IF gradlew
               THEN /\ Goto("git_add", <<"Android build successful">>)
                    /\ UNCHANGED fileVars
               ELSE /\ Exit(1, <<"error:Android build failed">>)
                    /\ PACKAGE_JSON' = HeadTree.pkg
                    /\ ANDROID_BUILD_GRADLE' = HeadTree.gradle
    /\ UNCHANGED <<argVars, envVars, treeVars, gitVars, remoteVars>>

\* variant: a failed build check is reported but does not end the script
VerifyBuildNoExit ==
    /\ pc = "verify_build"
    /\ IF SKIP_BUILD = TRUE
       THEN Goto("git_add",
                 <<"warning:Skipping build verification (--skip-build)">>)
       ELSE \E gradlew \in BOOLEAN :
               IF gradlew
               THEN Goto("git_add", <<"Android build successful">>)
               ELSE Goto("git_add", <<"error:Android build failed">>)
    /\ UNCHANGED <<argVars, envVars, repoVars>>

\* verify_build, lines 284-300
VerifyBuild ==
    /\ pc = "verify_build"
    /\ IF SKIP_BUILD = TRUE
       THEN Goto("git_add",
                 <<"warning:Skipping build verification (--skip-build)">>)
       ELSE \E gradlew \in BOOLEAN :
               IF gradlew
               THEN Goto("git_add", <<"Android build successful">>)
               ELSE Exit(1, <<"error:Android build failed">>)
    /\ UNCHANGED <<argVars, envVars, repoVars>>

\* commit_version_changes, line 314: git add of the two descriptor paths
GitAdd ==
    /\ pc = "git_add"
    /\ index' = [index EXCEPT !.pkg = PACKAGE_JSON,
                              !.gradle = ANDROID_BUILD_GRADLE]
    /\ Goto("git_commit", <<"git add">>)
    /\ UNCHANGED <<argVars, envVars, fileVars, treeVars, commits, tags,
                   remoteVars>>

\* commit_version_changes, lines 317-323: git commit records the whole
\* index; it refuses when the index equals HEAD, and may fail otherwise
\* (hook, identity)
GitCommit ==
    /\ pc = "git_commit"
    /\ IF index = HeadTree
       THEN /\ Exit(1, <<"errexit:git commit (nothing to commit)">>)
            /\ UNCHANGED commits
       ELSE \/ /\ commits' = Append(commits, index)
               /\ Goto("create_tag", <<"Changes committed">>)
            \/ /\ \E status \in GitFailStatus :
                     Exit(status, <<"errexit:git commit">>)
               /\ UNCHANGED commits
    /\ UNCHANGED <<argVars, envVars, fileVars, treeVars, index, tags,
                   remoteVars>>

\* variant: the annotation of the tag says whether --prerelease was given
NewTagMarked ==
    [name |-> TagName(VERSION), commit |-> Len(commits),
     version |-> VERSION, branch |-> branch, prerelease |-> PRERELEASE]

\* the annotated tag git tag -a makes at HEAD, lines 335-346
NewTag ==
    [name |-> TagName(VERSION), commit |-> Len(commits),
     version |-> VERSION, branch |-> branch]

\* variant: git tag -f, which moves an existing tag
CreateTagForce ==
    /\ pc = "create_tag"
    /\ tags' = {t \in tags : t.name # TagName(VERSION)}
                  \cup {NewTag}
    /\ Goto("push_branch", <<"Tag created">>)
    /\ UNCHANGED <<argVars, envVars, fileVars, treeVars, index, commits,
                   remoteVars>>

\* create_and_push_tag, lines 335-348
CreateTag ==
    /\ pc = "create_tag"
    /\ IF TagResolves(TagName(VERSION), tags)
       THEN /\ Exit(128, <<"errexit:git tag">>)
            /\ UNCHANGED tags
       ELSE /\ tags' = tags \cup {NewTag}
            /\ Goto("push_branch", <<"Tag created">>)
    /\ UNCHANGED <<argVars, envVars, fileVars, treeVars, index, commits,
                   remoteVars>>

\* variant: without set -e a failed branch push does not end the script
PushBranchNoErrexit ==
    /\ pc = "push_branch"
    /\ \/ /\ remote_head' = Len(commits)
          /\ Goto("push_tag", <<"Pushed commit">>)
       \/ /\ Goto("push_tag", <<"errexit:git push branch">>)
          /\ UNCHANGED remote_head
    /\ UNCHANGED <<argVars, envVars, fileVars, treeVars, gitVars,
                   remote_tags>>

\* create_and_push_tag, lines 353-354: git push origin "$CURRENT_BRANCH"
PushBranch ==
    /\ pc = "push_branch"
    /\ \/ /\ remote_head' = Len(commits)
          /\ Goto("push_tag", <<"Pushed commit">>)
       \/ /\ \E status \in GitFailStatus :
                Exit(status, <<"errexit:git push branch">>)
          /\ UNCHANGED remote_head
    /\ UNCHANGED <<argVars, envVars, fileVars, treeVars, gitVars,
                   remote_tags>>

\* variant: a failed tag push deletes the local tag again
PushTagRollback ==
    /\ pc = "push_tag"
    /\ LET mine == {t \in tags : t.name = TagName(VERSION)}
           clash == \E r \in remote_tags :
                       r.name = TagName(VERSION) /\ r \notin mine
       IN  \/ /\ ~clash
              /\ mine # {}
              /\ remote_tags' = remote_tags \cup mine
              /\ Goto("success", <<"Pushed tag">>)
              /\ UNCHANGED tags
           \/ /\ \E status \in GitFailStatus :
                    Exit(status, <<"errexit:git push tag">>)
              /\ tags' = tags \ mine
              /\ UNCHANGED remote_tags
    /\ UNCHANGED <<argVars, envVars, fileVars, treeVars, index, commits,
                   remote_head>>

\* create_and_push_tag, lines 356-359: git push origin "$tag"; origin
\* refuses a tag name it already has for another object
PushTag ==
    /\ pc = "push_tag"
    /\ LET mine == {t \in tags : t.name = TagName(VERSION)}
           clash == \E r \in remote_tags :
                       r.name = TagName(VERSION) /\ r \notin mine
       IN  \/ /\ ~clash
              /\ mine # {}
              /\ remote_tags' = remote_tags \cup mine
              /\ Goto("success", <<"Pushed tag">>)
           \/ /\ \E status \in GitFailStatus :
                    Exit(status, <<"errexit:git push tag">>)
              /\ UNCHANGED remote_tags
    /\ UNCHANGED <<argVars, envVars, fileVars, treeVars, gitVars,
                   remote_head>>

\* perform_release, lines 439-450, and the end of the script
Success ==
    /\ pc = "success"
    /\ Exit(0, <<"Release completed successfully">>)
    /\ UNCHANGED <<argVars, envVars, repoVars>>

\* the shell process is gone, and with it its variables; the repository
\* stays as the invocation left it
ProcessEnds ==
    /\ pc = "done"
    /\ pc' = "idle"
    /\ exit_code' = -1
    /\ log' = << >>
    /\ start' = Repo
    /\ ARGV' = << >>
    /\ VERSION' = << >>
    /\ SKIP_TESTS' = FALSE
    /\ SKIP_BUILD' = FALSE
    /\ PRERELEASE' = FALSE
    /\ DRY_RUN' = FALSE
    /\ FORCE' = FALSE
    /\ USE_JQ' = FALSE
    /\ CURRENT_BRANCH' = ""
    /\ version_code' = << >>
    /\ last_applied' =
          IF \E k \in 1..Len(log) : log[k] = "Updated Android build.gradle"
          THEN [version |-> VERSION, jq |-> USE_JQ, pkg |-> PACKAGE_JSON,
                gradle |-> ANDROID_BUILD_GRADLE]
          ELSE last_applied
    /\ UNCHANGED <<invocations, parked, repoVars>>

Next ==
    \/ Main
    \/ ProcessEnds
    \/ ValidateVersion
    \/ CheckDependencies
    \/ CheckGitStatus
    \/ CheckBranch
    \/ CheckTagExists
    \/ Confirm
    \/ DryRunReport
    \/ UpdatePackageJson
    \/ UpdateAndroidVersion
    \/ RunTests
    \/ VerifyBuild
    \/ GitAdd
    \/ GitCommit
    \/ CreateTag
    \/ PushBranch
    \/ PushTag
    \/ Success

Spec == Init /\ [][Next]_vars

(***************************************************************************)
(* Version validation over many strings: every string over a small         *)
(* alphabet up to a length, and the examples of the documentation.  The    *)
(* invocations are dry runs, which stop after the preflight checks.        *)
(***************************************************************************)
MaxVersionLen == 7

VersionChars == {"1", ".", "-", "a"}

StringsUpTo(chars, n) == UNION {[1..k -> chars] : k \in 0..n}

VersionExamples ==
    {<<"1", ".", "0">>,
     <<"v", "1", ".", "0", ".", "0">>,
     <<"1", ".", "0", ".", "0", ".", "0">>,
     <<"r", "e", "l", "e", "a", "s", "e", "-", "1">>,
     <<"1", ".", "2", ".", "3", "-", "b", "e", "t", "a">>,
     <<"2", ".", "0", ".", "0", "-", "a", "l", "p", "h", "a", ".", "1">>,
     <<"1", ".", "0", ".", "0", "-", "r", "c", "_", "1">>,
     <<"1", ".", "0", ".", "0", "+", "b", "u", "i", "l", "d">>,
     <<"0", "1", ".", "0", "0", "2", ".", "3">>}

VersionInputs == StringsUpTo(VersionChars, MaxVersionLen) \cup VersionExamples

CmdLinesV ==
    {ArgvOf(v, S) : v \in VersionInputs,
                    S \in {{OptDryRun}, {OptDryRun, OptForce}}}

MainV == MainWith(CmdLinesV)

InitV ==
    /\ InitRepo({<<ManifestBase, GradleBase>>}, {"feature"},
                {d \in InitDirt : d.untracked})
    /\ InitIdle

NextV ==
    \/ MainV
    \/ ProcessEnds
    \/ ValidateVersion
    \/ CheckDependencies
    \/ CheckGitStatus
    \/ CheckBranch
    \/ CheckTagExists
    \/ Confirm
    \/ DryRunReport

SpecV == InitV /\ [][NextV]_vars

(***************************************************************************)
(* The descriptor mutation over many file contents: lines put together     *)
(* from the pieces the sed patterns look for, and some whole files.  The   *)
(* invocations are forced live runs; a failed test run leaves the mutated  *)
(* files behind for the next invocation.                                   *)
(***************************************************************************)
MaxLinePieces == 3

LinesOf(pieces, n) == {Concat(f) : f \in StringsUpTo(pieces, n)}

NameMember == <<"\"", "n", "a", "m", "e", "\"", ":", " ", "\"", "a", "p", "p", "\"">>

ManifestPieces == {VersionPat, <<Q>>, <<"x">>, <<",", " ">>, NameMember}

GradlePieces == {VersionCodePat, VersionNamePat, <<"7">>, <<Q>>, <<"x">>}

ManifestFiles ==
    { << <<"{">>,
         <<" ", " ", "\"", "v", "e", "r", "s", "i", "o", "n", "\"", ":", " ", "\"", "0", ".", "9", ".", "0", "\"", ",", " ", "\"", "n", "a", "m", "e", "\"", ":", " ", "\"", "a", "p", "p", "\"">>,
         <<"}">> >>,
      << <<"{">>,
         <<" ", " ", "\"", "n", "a", "m", "e", "\"", ":", " ", "\"", "a", "p", "p", "\"", ",", " ", "\"", "v", "e", "r", "s", "i", "o", "n", "\"", ":", " ", "\"", "0", ".", "9", ".", "0", "\"">>,
         <<"}">> >>,
      << <<"{">>,
         <<" ", " ", "\"", "n", "a", "m", "e", "\"", ":", " ", "\"", "a", "p", "p", "\"">>,
         <<"}">> >>,
      << <<"{">>,
         <<" ", " ", "\"", "v", "e", "r", "s", "i", "o", "n", "\"", ":", " ", "\"", "1", "\"", ",">>,
         <<" ", " ", "\"", "v", "e", "r", "s", "i", "o", "n", "\"", ":", " ", "\"", "2", "\"">>,
         <<"}">> >>,
      << <<"{", " ", "\"", "v", "e", "r", "s", "i", "o", "n", "\"", ":", " ", "\"", "0", ".", "9", ".", "0", "\"", " ", "}">> >>,
      << <<"{">>,
         <<" ", " ", "\"", "v", "e", "r", "s", "i", "o", "n", "\"", ":", "\"", "0", ".", "9", ".", "0", "\"">>,
         <<"}">> >> }

ManifestInputs ==
    {<<<<"{">>, l, <<"}">>>> : l \in LinesOf(ManifestPieces, MaxLinePieces)}
      \cup ManifestFiles

GradleFiles ==
    { << <<"a", "n", "d", "r", "o", "i", "d", " ", "{">>,
         <<" ", " ", " ", " ", "v", "e", "r", "s", "i", "o", "n", "C", "o", "d", "e", " ", "1">>,
         <<" ", " ", " ", " ", "v", "e", "r", "s", "i", "o", "n", "N", "a", "m", "e", " ", "\"", "1", ".", "0", "\"">>,
         <<"}">> >>,
      << <<"v", "e", "r", "s", "i", "o", "n", "C", "o", "d", "e", " ", "1", "2", " ", "v", "e", "r", "s", "i", "o", "n", "N", "a", "m", "e", " ", "\"", "1", ".", "0", "\"", " ", "/", "/", " ", "\"", "o", "l", "d", "\"">> >>,
      << <<"v", "e", "r", "s", "i", "o", "n", "N", "a", "m", "e", " ", "\"", "v", "e", "r", "s", "i", "o", "n", "C", "o", "d", "e", " ", "1", "\"", " ", "/", "/", " ", "v", "e", "r", "s", "i", "o", "n", "C", "o", "d", "e", " ", "2">> >> }

GradleInputs ==
    {<<l>> : l \in LinesOf(GradlePieces, MaxLinePieces)} \cup GradleFiles

V_1_100_0 == <<"1", ".", "1", "0", "0", ".", "0">>

V_0_0_7 == <<"0", ".", "0", ".", "7">>

V_1_2_3_beta == <<"1", ".", "2", ".", "3", "-", "b", "e", "t", "a">>

MutationVersions == {V_1_0_1, V_1_100_0, V_0_0_7, V_1_2_3_beta}

CmdLinesM == {ArgvOf(v, {OptForce}) : v \in MutationVersions}

MainM == MainWith(CmdLinesM)

InitM ==
    /\ InitRepo({<<m, GradleBase>> : m \in ManifestInputs}
                  \cup {<<ManifestBase, g>> : g \in GradleInputs},
                {"main"}, {d \in InitDirt : d.other = "base" /\ ~d.untracked})
    /\ InitIdle

NextM ==
    \/ MainM
    \/ ProcessEnds
    \/ ValidateVersion
    \/ CheckDependencies
    \/ CheckGitStatus
    \/ CheckBranch
    \/ CheckTagExists
    \/ Confirm
    \/ DryRunReport
    \/ UpdatePackageJson
    \/ UpdateAndroidVersion
    \/ RunTests

SpecM == InitM /\ [][NextM]_vars

(***************************************************************************)
(* Two processes of the script in the same working tree, for the same      *)
(* version.  The script takes no lock (it is started by main "$@" and runs *)
(* to its end), so the operating system may let the other process run      *)
(* between any two commands.                                               *)
(***************************************************************************)
ManifestOneLine ==
    << <<"{", " ", "\"", "v", "e", "r", "s", "i", "o", "n", "\"", ":", " ", "\"", "0", ".", "9", ".", "0", "\"", " ", "}">> >>

CmdLinesC ==
    {ArgvOf(V_1_0_1, S) : S \in {{OptForce}, {OptForce, OptSkipTests, OptSkipBuild}}}

MainC == MainWith(CmdLinesC)

\* the other process of the script is scheduled
Switch ==
    /\ pc # "idle" \/ parked.pc # "idle"
    /\ parked' = Shell
    /\ pc' = parked.pc
    /\ exit_code' = parked.exit_code
    /\ log' = parked.log
    /\ start' = parked.start
    /\ ARGV' = parked.ARGV
    /\ VERSION' = parked.VERSION
    /\ SKIP_TESTS' = parked.SKIP_TESTS
    /\ SKIP_BUILD' = parked.SKIP_BUILD
    /\ PRERELEASE' = parked.PRERELEASE
    /\ DRY_RUN' = parked.DRY_RUN
    /\ FORCE' = parked.FORCE
    /\ USE_JQ' = parked.USE_JQ
    /\ CURRENT_BRANCH' = parked.CURRENT_BRANCH
    /\ version_code' = parked.version_code
    /\ UNCHANGED <<invocations, last_applied, repoVars>>

InitC ==
    /\ InitRepo({<<ManifestOneLine, GradleBase>>},
                {"main"}, {d \in InitDirt : d.other = "base" /\ ~d.untracked})
    /\ InitIdle

NextC ==
    \/ MainC
    \/ Switch
    \/ ProcessEnds
    \/ ValidateVersion
    \/ CheckDependencies
    \/ CheckGitStatus
    \/ CheckBranch
    \/ CheckTagExists
    \/ Confirm
    \/ DryRunReport
    \/ UpdatePackageJson
    \/ UpdateAndroidVersion
    \/ RunTests
    \/ VerifyBuild
    \/ GitAdd
    \/ GitCommit
    \/ CreateTag
    \/ PushBranch
    \/ PushTag
    \/ Success

SpecC == InitC /\ [][NextC]_vars

(***************************************************************************)
(* Releases from a clean tree on main or master, for a version of the      *)
(* documentation's examples and for one with a three-digit minor number.   *)
(***************************************************************************)
CmdLinesE ==
    {ArgvOf(v, S) : v \in {V_2_1_0, V_1_100_0},
                    S \in SUBSET {OptForce, OptSkipTests, OptSkipBuild}}

MainE == MainWith(CmdLinesE)

InitE ==
    /\ InitRepo({<<ManifestBase, GradleBase>>}, {"main", "master"},
                {d \in InitDirt : d.other = "base" /\ ~d.untracked})
    /\ InitIdle

NextE ==
    \/ MainE
    \/ ProcessEnds
    \/ ValidateVersion
    \/ CheckDependencies
    \/ CheckGitStatus
    \/ CheckBranch
    \/ CheckTagExists
    \/ Confirm
    \/ DryRunReport
    \/ UpdatePackageJson
    \/ UpdateAndroidVersion
    \/ RunTests
    \/ VerifyBuild
    \/ GitAdd
    \/ GitCommit
    \/ CreateTag
    \/ PushBranch
    \/ PushTag
    \/ Success

SpecE == InitE /\ [][NextE]_vars

(***************************************************************************)
(* Validation under every combination of the flags: two invocations, each  *)
(* with any subset of the five options, followed up to the end of          *)
(* validate_version so that their outcomes can be compared.                *)
(***************************************************************************)
V_1_0_0_rc_1 == <<"1", ".", "0", ".", "0", "-", "r", "c", "_", "1">>

FlagVersions == {V_1_0_1, V_1_0, V_1_2_3_beta, V_1_0_0_rc_1}

CmdLinesF ==
    {ArgvOf(v, S) : v \in FlagVersions,
                    S \in SUBSET {AllOptions[k] : k \in 1..Len(AllOptions)}}

MainF == MainWith(CmdLinesF)

InitF ==
    /\ InitRepo({<<ManifestBase, GradleBase>>}, {"main"},
                {d \in InitDirt : d.other = "base" /\ ~d.untracked})
    /\ InitIdle

NextF ==
    \/ MainF
    \/ Switch
    \/ ProcessEnds
    \/ ValidateVersion

SpecF == InitF /\ [][NextF]_vars

(***************************************************************************)
(* A release and a pre-release of the same numeric triple, one after the   *)
(* other in either order.                                                  *)
(***************************************************************************)
V_1_0_0 == <<"1", ".", "0", ".", "0">>

V_1_0_0_beta == <<"1", ".", "0", ".", "0", "-", "b", "e", "t", "a">>

CmdLinesT ==
    {ArgvOf(v, S) : v \in {V_1_0_0, V_1_0_0_beta},
                    S \in {{OptForce, OptSkipTests, OptSkipBuild},
                           {OptForce, OptSkipTests, OptSkipBuild,
                            OptPrerelease}}}

MainT == MainWith(CmdLinesT)

InitT ==
    /\ InitRepo({<<ManifestBase, GradleBase>>}, {"main"},
                {d \in InitDirt : d.other = "base" /\ ~d.untracked})
    /\ InitIdle

NextT ==
    \/ MainT
    \/ ProcessEnds
    \/ ValidateVersion
    \/ CheckDependencies
    \/ CheckGitStatus
    \/ CheckBranch
    \/ CheckTagExists
    \/ Confirm
    \/ DryRunReport
    \/ UpdatePackageJson
    \/ UpdateAndroidVersion
    \/ RunTests
    \/ VerifyBuild
    \/ GitAdd
    \/ GitCommit
    \/ CreateTag
    \/ PushBranch
    \/ PushTag
    \/ Success

SpecT == InitT /\ [][NextT]_vars

(***************************************************************************)
(* The path of one invocation through the stages, dry and live, forced     *)
(* and prompted, from trees that pass and trees that fail each stage.      *)
(***************************************************************************)
ManifestNoVersion ==
    << <<"{">>,
       <<" ", " ", "\"", "n", "a", "m", "e", "\"", ":", " ", "\"", "a", "p", "p", "\"">>,
       <<"}">> >>

CmdLinesP ==
    {ArgvOf(v, S) : v \in {V_1_0_1, V_1_0},
                    S \in SUBSET {OptDryRun, OptForce, OptSkipTests}}

MainP == MainWith(CmdLinesP)

InitP ==
    /\ InitRepo({<<ManifestBase, GradleBase>>, <<ManifestNoVersion, GradleBase>>},
                {"main", "feature"},
                {d \in InitDirt : d.other = "base"})
    /\ InitIdle

NextP ==
    \/ MainP
    \/ ProcessEnds
    \/ ValidateVersion
    \/ CheckDependencies
    \/ CheckGitStatus
    \/ CheckBranch
    \/ CheckTagExists
    \/ Confirm
    \/ DryRunReport
    \/ UpdatePackageJson
    \/ UpdateAndroidVersion
    \/ RunTests
    \/ VerifyBuild
    \/ GitAdd
    \/ GitCommit
    \/ CreateTag
    \/ PushBranch
    \/ PushTag
    \/ Success

SpecP == InitP /\ [][NextP]_vars

(***************************************************************************)
(* Releasing the version that the committed descriptors already show.      *)
(***************************************************************************)
ManifestAt_1_0_1 ==
    << <<"{">>,
       <<" ", " ", "\"", "n", "a", "m", "e", "\"", ":", " ", "\"", "a", "p", "p", "\"", ",">>,
       <<" ", " ", "\"", "v", "e", "r", "s", "i", "o", "n", "\"", ":", " ", "\"", "1", ".", "0", ".", "1", "\"">>,
       <<"}">> >>

ManifestOneLineAt_1_0_1 ==
    << <<"{", " ", "\"", "v", "e", "r", "s", "i", "o", "n", "\"", ":", " ", "\"", "1", ".", "0", ".", "1", "\"", " ", "}">> >>

GradleAt_1_0_1 ==
    << <<"v", "e", "r", "s", "i", "o", "n", "C", "o", "d", "e", " ", "1", "0", "0", "0", "1">>,
       <<"v", "e", "r", "s", "i", "o", "n", "N", "a", "m", "e", " ", "\"", "1", ".", "0", ".", "1", "\"">> >>

CmdLinesN ==
    {ArgvOf(V_1_0_1, S) : S \in SUBSET {OptForce, OptSkipTests, OptSkipBuild}}

MainN == MainWith(CmdLinesN)

InitN ==
    /\ InitRepo({<<ManifestAt_1_0_1, GradleAt_1_0_1>>,
                 <<ManifestOneLineAt_1_0_1, GradleAt_1_0_1>>},
                {"main"}, {d \in InitDirt : d.other = "base" /\ ~d.untracked})
    /\ InitIdle

NextN ==
    \/ MainN
    \/ ProcessEnds
    \/ ValidateVersion
    \/ CheckDependencies
    \/ CheckGitStatus
    \/ CheckBranch
    \/ CheckTagExists
    \/ Confirm
    \/ DryRunReport
    \/ UpdatePackageJson
    \/ UpdateAndroidVersion
    \/ RunTests
    \/ VerifyBuild
    \/ GitAdd
    \/ GitCommit
    \/ CreateTag
    \/ PushBranch
    \/ PushTag
    \/ Success

SpecN == InitN /\ [][NextN]_vars

\* the steps of one invocation whose commands return: the process goes on
\* from every program point but the manifest update, which FairUpdate covers
StepsP ==
    \/ ValidateVersion
    \/ CheckDependencies
    \/ CheckGitStatus
    \/ CheckBranch
    \/ CheckTagExists
    \/ Confirm
    \/ DryRunReport
    \/ UpdateAndroidVersion
    \/ RunTests
    \/ VerifyBuild
    \/ GitAdd
    \/ GitCommit
    \/ CreateTag
    \/ PushBranch
    \/ PushTag
    \/ Success

\* weak fairness of update_package_json, lines 207-233, with its program
\* point written in place of ENABLED: jq, sed and grep return on every
\* manifest, so the step is enabled exactly when pc is at it
FairUpdate ==
    \/ []<>(pc # "update_package_json")
    \/ []<><<UpdatePackageJson>>_vars

\* the path specification with every command and every prompt returning
SpecL == InitP /\ [][NextP]_vars /\ WF_vars(StepsP) /\ FairUpdate

(***************************************************************************)
(* One command line run twice, with and without --prerelease, from the     *)
(* same repository state                                                   *)
(***************************************************************************)
CmdLinesR ==
    {ArgvOf(V_1_0_0_beta, S) :
        S \in SUBSET {OptPrerelease, OptDryRun, OptForce, OptSkipTests}}

\* the command line that differs from argv only in --prerelease
TogglePrerelease(argv) ==
    LET S == {argv[k] : k \in 2..Len(argv)}
    IN  ArgvOf(argv[1], IF OptPrerelease \in S
                        THEN S \ {OptPrerelease}
                        ELSE S \cup {OptPrerelease})

\* the first of the two runs has ended and its result is kept
HasResult == "repo" \in DOMAIN parked

\* the second run takes the first one's command line with --prerelease
\* added or removed
MainR == MainWith(IF HasResult THEN {TogglePrerelease(parked.argv)}
                               ELSE CmdLinesR)

\* the first run has ended: its result is kept, and the working tree, the
\* repository and origin are put back to the state it started from
Restore ==
    /\ pc = "done"
    /\ ~HasResult
    /\ parked' = [argv |-> ARGV, exit_code |-> exit_code, log |-> log,
                  USE_JQ |-> USE_JQ, repo |-> Repo]
    /\ pc' = "idle"
    /\ exit_code' = -1
    /\ log' = << >>
    /\ ARGV' = << >>
    /\ VERSION' = << >>
    /\ SKIP_TESTS' = FALSE
    /\ SKIP_BUILD' = FALSE
    /\ PRERELEASE' = FALSE
    /\ DRY_RUN' = FALSE
    /\ FORCE' = FALSE
    /\ USE_JQ' = FALSE
    /\ CURRENT_BRANCH' = ""
    /\ version_code' = << >>
    /\ PACKAGE_JSON' = start.pkg
    /\ ANDROID_BUILD_GRADLE' = start.gradle
    /\ other_file' = start.other
    /\ untracked' = start.untracked
    /\ index' = start.index
    /\ commits' = start.commits
    /\ tags' = start.tags
    /\ remote_head' = start.remote_head
    /\ remote_tags' = start.remote_tags
    /\ UNCHANGED <<start, invocations, last_applied, branch>>

InitR ==
    /\ InitRepo({<<ManifestBase, GradleBase>>}, {"main", "feature"},
                {d \in InitDirt : d.other = "base"})
    /\ InitIdle

NextR ==
    \/ MainR
    \/ Restore
    \/ ValidateVersion
    \/ CheckDependencies
    \/ CheckGitStatus
    \/ CheckBranch
    \/ CheckTagExists
    \/ Confirm
    \/ DryRunReport
    \/ UpdatePackageJson
    \/ UpdateAndroidVersion
    \/ RunTests
    \/ VerifyBuild
    \/ GitAdd
    \/ GitCommit
    \/ CreateTag
    \/ PushBranch
    \/ PushTag
    \/ Success

SpecR == InitR /\ [][NextR]_vars

(***************************************************************************)
(* The version code over many numeric triples: one forced invocation       *)
(* after another, each up to the tests                                     *)
(***************************************************************************)
EncodingMajors == {<<"0">>, <<"1">>, <<"1", "0">>}

EncodingMinors == {<<"0">>, <<"9", "9">>, <<"1", "0", "0">>}

EncodingPatches == {<<"0">>, <<"0", "9">>, <<"9", "9">>}

V_0_99_99_rc == <<"0", ".", "9", "9", ".", "9", "9", "-", "r", "c">>

EncodingVersions ==
    {a \o <<".">> \o b \o <<".">> \o c :
        a \in EncodingMajors, b \in EncodingMinors, c \in EncodingPatches}
      \cup {V_1_0_0_beta, V_0_99_99_rc}

CmdLinesK == {ArgvOf(v, {OptForce}) : v \in EncodingVersions}

MainK == MainWith(CmdLinesK)

InitK ==
    /\ InitRepo({<<ManifestOneLine, GradleBase>>}, {"main"},
                {d \in InitDirt : d.other = "base" /\ ~d.untracked})
    /\ InitIdle

NextK ==
    \/ MainK
    \/ ProcessEnds
    \/ ValidateVersion
    \/ CheckDependencies
    \/ CheckGitStatus
    \/ CheckBranch
    \/ CheckTagExists
    \/ Confirm
    \/ DryRunReport
    \/ UpdatePackageJson
    \/ UpdateAndroidVersion
    \/ RunTests

SpecK == InitK /\ [][NextK]_vars

(***************************************************************************)
(* A repository whose origin already has the tag of the version while the  *)
(* local repository does not (the tag was pushed from another clone and    *)
(* never fetched)                                                          *)
(***************************************************************************)
\* the tag v1.0.1 that origin has, on the commit both repositories start at
OriginTag ==
    [name |-> TagName(V_1_0_1), commit |-> 1, version |-> V_1_0_1,
     branch |-> "main"]

CmdLinesO ==
    {ArgvOf(V_1_0_1, S) : S \in SUBSET {OptForce, OptSkipTests, OptSkipBuild}}

MainO == MainWith(CmdLinesO)

InitO ==
    /\ PACKAGE_JSON = ManifestBase
    /\ ANDROID_BUILD_GRADLE = GradleBase
    /\ other_file = "base"
    /\ untracked = FALSE
    /\ index = [pkg |-> PACKAGE_JSON, gradle |-> ANDROID_BUILD_GRADLE,
                other |-> "base"]
    /\ commits = <<index>>
    /\ branch \in {"main", "feature"}
    /\ tags = {}
    /\ remote_head = 1
    /\ remote_tags \in {{}, {OriginTag}}
    /\ InitIdle

NextO ==
    \/ MainO
    \/ ProcessEnds
    \/ ValidateVersion
    \/ CheckDependencies
    \/ CheckGitStatus
    \/ CheckBranch
    \/ CheckTagExists
    \/ Confirm
    \/ DryRunReport
    \/ UpdatePackageJson
    \/ UpdateAndroidVersion
    \/ RunTests
    \/ VerifyBuild
    \/ GitAdd
    \/ GitCommit
    \/ CreateTag
    \/ PushBranch
    \/ PushTag
    \/ Success

SpecO == InitO /\ [][NextO]_vars

(***************************************************************************)
(* Command lines of any words in any order: a version, the empty word,     *)
(* help, two of the flags, an option the script does not know              *)
(***************************************************************************)
MaxArgs == 3

OptBogus == <<"-", "-", "b", "o", "g", "u", "s">>

ArgWords ==
    {V_1_0_1, << >>, OptHelp, OptHelpShort, OptDryRun, OptForce, OptBogus}

CmdLinesA == StringsUpTo(ArgWords, MaxArgs)

MainA == MainWith(CmdLinesA)

InitA ==
    /\ InitRepo({<<ManifestBase, GradleBase>>}, {"main"},
                {d \in InitDirt : d.other = "base" /\ ~d.untracked})
    /\ InitIdle

NextA ==
    \/ MainA
    \/ ProcessEnds
    \/ ValidateVersion
    \/ CheckDependencies
    \/ CheckGitStatus
    \/ CheckBranch
    \/ CheckTagExists
    \/ Confirm
    \/ DryRunReport
    \/ UpdatePackageJson
    \/ UpdateAndroidVersion
    \/ RunTests
    \/ VerifyBuild
    \/ GitAdd
    \/ GitCommit
    \/ CreateTag
    \/ PushBranch
    \/ PushTag
    \/ Success

SpecA == InitA /\ [][NextA]_vars

(***************************************************************************)
(* Properties                                                              *)
(***************************************************************************)
InLog(e) == \E k \in 1..Len(log) : log[k] = e

\* the same for the output of the process sh
InLogOf(sh, e) == \E k \in 1..Len(sh.log) : sh.log[k] = e

\* an invocation is running or has just ended
Invoked == pc # "idle"

\* the tag of the version resolved when the invocation started
TagAtStart == Invoked /\ TagResolves(TagName(VERSION), start.tags)

PreflightSteps ==
    {"validate_version", "check_dependencies", "check_git_status",
     "check_branch", "check_tag_exists"}

\* C1: when the tag v<version> already resolves at the start of an
\* invocation, then whatever the flags and the answers, the invocation
\* never gets past the preflight checks, changes nothing in the descriptor
\* files, the index, the history, the tags or on origin, and ends with
\* exit status 1.
C1_ExistingTagStopsRelease ==
    TagAtStart =>
        /\ Repo = start
        /\ pc \in PreflightSteps \cup {"done"}
        /\ (pc = "done" => exit_code = 1)

C1_Witness ==
    /\ TagAtStart
    /\ pc = "done"
    /\ exit_code = 1
    /\ InLog("error:Tag already exists")
    /\ FORCE = TRUE
    /\ SKIP_TESTS = TRUE

\* C2: during and after an invocation with --dry-run, whatever its outcome,
\* the descriptor files, the rest of the working tree, the index, the
\* history, the local tags and origin's refs are what they were at its start.
C2_DryRunChangesNothing ==
    (Invoked /\ DRY_RUN = TRUE) => Repo = start

C2_Witness ==
    /\ pc = "done"
    /\ DRY_RUN = TRUE
    /\ exit_code = 0
    /\ InLog("Dry run completed")
    /\ Repo = start

\* the stages of a live invocation, in their order, by the line each prints
\* when it has succeeded (or was skipped by its flag)
StageLines ==
    <<"Updated package.json",
      "Updated Android build.gradle",
      IF SKIP_TESTS = TRUE THEN "warning:Skipping tests (--skip-tests)"
      ELSE "All tests passed",
      IF SKIP_BUILD = TRUE
      THEN "warning:Skipping build verification (--skip-build)"
      ELSE "Android build successful",
      "Changes committed",
      "Tag created",
      "Pushed commit",
      "Pushed tag">>

\* every b in the log has an a before it
Before(a, b) ==
    \A i \in 1..Len(log) : log[i] = b => \E j \in 1..(i - 1) : log[j] = a

\* the number of stages that must have succeeded before the step pc starts
StagesBefore ==
    CASE pc = "update_android_version" -> 1
      [] pc = "run_tests" -> 2
      [] pc = "verify_build" -> 3
      [] pc \in {"git_add", "git_commit"} -> 4
      [] pc = "create_tag" -> 5
      [] pc = "push_branch" -> 6
      [] pc = "push_tag" -> 7
      [] pc = "success" -> 8
      [] OTHER -> 0

CreatedCommit == Len(commits) > Len(start.commits)

CreatedTag == tags # start.tags

\* C3: the stages descriptor mutation, tests, build check, commit, tag
\* creation, branch push, tag push succeed only in this order, a stage is
\* started only when all earlier ones have succeeded or were skipped by
\* their flag, and a commit or tag made by the invocation exists only if
\* the tests passed or --skip-tests was given and the build check passed or
\* --skip-build was given.
C3_StagesInOrder ==
    Invoked =>
        /\ \A k \in 2..Len(StageLines) :
              Before(StageLines[k - 1], StageLines[k])
        /\ \A k \in 1..StagesBefore : InLog(StageLines[k])
        /\ (CreatedCommit \/ CreatedTag) =>
              /\ InLog("All tests passed") \/ SKIP_TESTS = TRUE
              /\ InLog("Android build successful") \/ SKIP_BUILD = TRUE
              /\ ~InLog("error:Tests failed")
              /\ ~InLog("error:Android build failed")

C3_Witness ==
    /\ pc = "done"
    /\ CreatedCommit
    /\ CreatedTag
    /\ InLog("Pushed tag")
    /\ InLog("All tests passed")
    /\ InLog("Android build successful")

PushedTags == remote_tags \ start.remote_tags

\* C4: commit, tag creation, branch push and tag push are attempted in this
\* order, each only after the one before succeeded: a tag this invocation
\* pushed to origin is the local tag it created on the commit it created,
\* and origin has that commit for the branch; the invocation reports
\* completion only when all four have succeeded.
C4_PublisherInOrder ==
    Invoked =>
        /\ \A t \in PushedTags :
              /\ t.name = TagName(VERSION)
              /\ t \in tags \ start.tags
              /\ CreatedCommit
              /\ t.commit = Len(commits)
              /\ remote_head = Len(commits)
              /\ InLog("Pushed tag")
              /\ Before("Pushed commit", "Pushed tag")
              /\ Before("Tag created", "Pushed commit")
              /\ Before("Changes committed", "Tag created")
        /\ InLog("Release completed successfully") =>
              /\ Len(commits) = Len(start.commits) + 1
              /\ \E t \in tags \ start.tags :
                    /\ t.commit = Len(commits)
                    /\ t \in remote_tags
              /\ remote_head = Len(commits)
              /\ ~InLog("errexit:git push branch")

C4_Witness ==
    /\ pc = "done"
    /\ exit_code = 0
    /\ InLog("Release completed successfully")
    /\ PushedTags # {}

IsDigits(t) == t # << >> /\ \A i \in 1..Len(t) : t[i] \in DigitChars

RECURSIVE DecimalValue(_)
DecimalValue(t) ==
    IF t = << >> THEN 0
    ELSE DecimalValue(SubSeq(t, 1, Len(t) - 1)) * 10 + DigitValue(t[Len(t)])

AnyLabel(l) == l # << >>

PlainLabel(l) ==
    /\ l # << >>
    /\ \A i \in 1..Len(l) : l[i] \in LetterChars \cup DigitChars \cup {"."}

\* t is MAJOR.MINOR.PATCH, three non-empty runs of digits separated by dots,
\* alone or followed by '-' and a label that LabelOk accepts
VersionForm(t, LabelOk(_)) ==
    \E i, j, k \in 1..Len(t) :
        /\ i < j /\ j < k
        /\ t[i] = "." /\ t[j] = "."
        /\ IsDigits(SubSeq(t, 1, i - 1))
        /\ IsDigits(SubSeq(t, i + 1, j - 1))
        /\ IsDigits(SubSeq(t, j + 1, k))
        /\ \/ k = Len(t)
           \/ /\ k < Len(t)
              /\ t[k + 1] = "-"
              /\ LabelOk(SubSeq(t, k + 2, Len(t)))

\* the numeric triple of a version of that form
TripleOf(t) ==
    LET i == Min({n \in 1..Len(t) : t[n] = "."})
        j == Min({n \in (i + 1)..Len(t) : t[n] = "."})
        k == Max({n \in j..Len(t) : \A m \in (j + 1)..n : t[m] \in DigitChars})
    IN  <<DecimalValue(SubSeq(t, 1, i - 1)),
          DecimalValue(SubSeq(t, i + 1, j - 1)),
          DecimalValue(SubSeq(t, j + 1, k))>>

\* C5: for every accepted version M.m.p[-label] the version code that
\* update_android_version computes and writes is M*10000 + m*100 + p.
C5_VersionCodeIsFormula ==
    (pc = "run_tests" /\ validate_version(VERSION)) =>
        LET t == TripleOf(VERSION)
        IN  /\ DecimalValue(version_code) = t[1] * 10000 + t[2] * 100 + t[3]
            /\ \A n \in 1..Len(ANDROID_BUILD_GRADLE) :
                  Contains(ANDROID_BUILD_GRADLE[n], VersionCodePat) =>
                      Contains(ANDROID_BUILD_GRADLE[n],
                               VersionCodePat \o version_code)

InvalidVersionLines ==
    <<"error:Invalid version format",
      "info:Version must follow semantic versioning (e.g., 1.0.0, 1.2.3-beta)">>

\* the version string has been through validate_version
Validated == Invoked /\ pc # "validate_version" /\ VERSION # << >>
                 /\ Head(VERSION) # "-"

\* C6, as stated: a version string is accepted exactly when it is
\* MAJOR.MINOR.PATCH optionally followed by '-' and a non-empty label (any
\* label); every other string ends the invocation with status 1 and the
\* format message before anything else happens.
C6_AcceptedIffAnyLabel ==
    Validated =>
        IF VersionForm(VERSION, AnyLabel)
        THEN InLog("version_valid")
        ELSE /\ pc = "done" /\ exit_code = 1
             /\ log = InvalidVersionLines
             /\ Repo = start

\* C6, amended: a version string is accepted exactly when it is
\* MAJOR.MINOR.PATCH optionally followed by '-' and a non-empty label made
\* of ASCII letters, digits and dots only; every other string ends the
\* invocation with status 1 and the message naming the expected format,
\* before any repository inspection, prompt, write, commit, tag or push.
C6_AcceptedIffPlainLabel ==
    Validated =>
        IF VersionForm(VERSION, PlainLabel)
        THEN InLog("version_valid") /\ log[1] = "version_valid"
        ELSE /\ pc = "done" /\ exit_code = 1
             /\ log = InvalidVersionLines
             /\ Repo = start

C6_Witness ==
    /\ pc = "done"
    /\ exit_code = 1
    /\ VERSION = <<"v", "1", ".", "0", ".", "0">>
    /\ log = InvalidVersionLines
    /\ StatusDirty
    /\ FORCE = FALSE

\* the invocation applies the mutation to files that the last finished
\* invocation left after applying it with the same version and strategy
SecondApplication ==
    /\ Invoked
    /\ last_applied.version = VERSION
    /\ VERSION # << >>
    /\ last_applied.pkg = start.pkg
    /\ last_applied.gradle = start.gradle

\* C7: applying update_package_json and update_android_version a second
\* time with the same version, with jq both times or with sed both times,
\* leaves both files exactly as the first application left them, whatever
\* the files held before the first application.
C7_MutationIdempotent ==
    /\ (SecondApplication /\ pc = "update_android_version"
           /\ last_applied.jq = USE_JQ)
          => PACKAGE_JSON = start.pkg
    /\ (SecondApplication /\ pc = "run_tests" /\ last_applied.jq = USE_JQ)
          => (PACKAGE_JSON = start.pkg /\ ANDROID_BUILD_GRADLE = start.gradle)
    /\ (SecondApplication /\ pc = "done" /\ InLog("dependencies_found")
           /\ last_applied.jq = USE_JQ)
          => (~InLog("errexit:jq") /\ ~InLog("errexit:grep"))

\* the descriptor files show the new version
DescriptorsShowVersion ==
    /\ \E n \in 1..Len(PACKAGE_JSON) :
          Contains(PACKAGE_JSON[n], VersionPat \o VERSION \o <<Q>>)
    /\ \E n \in 1..Len(ANDROID_BUILD_GRADLE) :
          Contains(ANDROID_BUILD_GRADLE[n], VersionCodePat \o version_code)
    /\ \E n \in 1..Len(ANDROID_BUILD_GRADLE) :
          Contains(ANDROID_BUILD_GRADLE[n],
                   VersionNamePat \o VERSION \o <<Q>>)

\* C8: when npm test or the build check fails in a live invocation, the
\* invocation ends there with status 1, both descriptor files still show
\* the new version (nothing is rolled back), and the index, the history,
\* the tags and origin are untouched.
C8_VerificationFailureKeepsEdits ==
    (InLog("error:Tests failed") \/ InLog("error:Android build failed")) =>
        /\ pc = "done"
        /\ exit_code = 1
        /\ log[Len(log)] \in {"error:Tests failed",
                              "error:Android build failed"}
        /\ DescriptorsShowVersion
        /\ version_code = VersionCodeOf(VERSION)
        /\ index = start.index
        /\ commits = start.commits
        /\ tags = start.tags
        /\ remote_head = start.remote_head
        /\ remote_tags = start.remote_tags

C8_Witness ==
    /\ pc = "done"
    /\ InLog("error:Android build failed")
    /\ InLog("All tests passed")
    /\ PACKAGE_JSON # start.pkg
    /\ ANDROID_BUILD_GRADLE # start.gradle

\* C9: the commit the invocation creates differs from its parent in the
\* two descriptor files only, and there by exactly what the mutation stage
\* changed.
C9_CommitHoldsOnlyDescriptorEdits ==
    (Invoked /\ CreatedCommit) =>
        LET new == commits[Len(commits)]
            parent == commits[Len(commits) - 1]
        IN  /\ new.other = parent.other
            /\ parent.pkg = start.pkg
            /\ parent.gradle = start.gradle
            /\ new.pkg = PACKAGE_JSON
            /\ new.gradle = ANDROID_BUILD_GRADLE

PushFailed ==
    InLog("errexit:git push branch") \/ InLog("errexit:git push tag")

Count(e) == Cardinality({k \in 1..Len(log) : log[k] = e})

\* the tag of the version existed at the start, but only locally
UnpushedTagAtStart ==
    /\ TagAtStart
    /\ ~TagResolves(TagName(VERSION), start.remote_tags)

\* C10: when the branch push or the tag push fails, the invocation ends
\* with a failure, each push having been tried at most once, and the new
\* commit and the new local tag stay; a later invocation with the same
\* version cannot get past the tag check: it ends with status 1, at the tag
\* check unless a prompt before it was declined, and changes nothing.
C10_PushFailureLeavesTagBlockingRetry ==
    /\ PushFailed =>
          /\ pc = "done"
          /\ exit_code \notin {-1, 0}
          /\ Count("errexit:git push branch") + Count("Pushed commit") <= 1
          /\ Count("errexit:git push tag") + Count("Pushed tag") <= 1
          /\ Len(commits) = Len(start.commits) + 1
          /\ \E t \in tags \ start.tags :
                t.name = TagName(VERSION) /\ t.commit = Len(commits)
          /\ remote_tags = start.remote_tags
    /\ UnpushedTagAtStart =>
          /\ Repo = start
          /\ pc \in PreflightSteps \cup {"done"}
          /\ pc = "done" =>
                /\ exit_code = 1
                /\ log[Len(log)] \in {"error:Tag already exists",
                                      "error:Aborted by user", "errexit:read",
                                      "error:Missing required dependencies"}
                /\ InLog("dependencies_found")
                       /\ ~InLog("error:Aborted by user")
                       /\ ~InLog("errexit:read")
                      => log[Len(log)] = "error:Tag already exists"

C10_Witness ==
    /\ UnpushedTagAtStart
    /\ pc = "done"
    /\ exit_code = 1
    /\ log[Len(log)] = "error:Tag already exists"
    /\ Len(start.commits) = 2
    /\ Repo = start

\* the process sh found the tag in its way at git tag
TagRefused(sh) == InLogOf(sh, "errexit:git tag")

TagsIntactAfterStep ==
    /\ \A t1, t2 \in tags : t1.name = t2.name => t1 = t2
    /\ \A t \in tags : t.commit \in 1..Len(commits)
    /\ \A sh \in {Shell, parked} :
          TagRefused(sh) =>
              /\ sh.pc = "done"
              /\ sh.exit_code \notin {-1, 0}
              /\ sh.log[Len(sh.log)] = "errexit:git tag"
              /\ ~InLogOf(sh, "Tag created")
              /\ ~InLogOf(sh, "Pushed commit")
              /\ ~InLogOf(sh, "errexit:git push branch")
              /\ ~InLogOf(sh, "Pushed tag")
              /\ ~InLogOf(sh, "errexit:git push tag")
              /\ TagResolves(TagName(sh.VERSION), tags)

\* C11: with two processes of the script running for the same version in
\* the same repository, interleaved in any way, no step removes a local tag
\* or binds it to another commit, there is never more than one tag of a
\* name, and a process whose git tag finds the tag already there ends at
\* that command with a failure, having pushed nothing.
C11_TagCreatedOnceNeverRebound ==
    [][(\A t \in tags : t \in tags') /\ TagsIntactAfterStep']_vars

C11_Witness ==
    /\ TagRefused(Shell)
    /\ InLogOf(parked, "Tag created")
    /\ InLog("Changes committed")
    /\ \E t \in tags : t.name = TagName(VERSION) /\ t.commit = 3

\* the tree had no uncommitted change when the invocation started
CleanAtStart ==
    /\ start.index = start.commits[Len(start.commits)]
    /\ start.pkg = start.index.pkg
    /\ start.gradle = start.index.gradle
    /\ start.other = start.index.other
    /\ ~start.untracked

\* lines that tell of a command that failed or a prompt that was declined
FailureLines ==
    {"error:Invalid version format", "error:Missing required dependencies",
     "error:Aborted by user", "errexit:read", "error:Tag already exists",
     "error:Release cancelled by user", "errexit:jq", "errexit:grep",
     "error:Tests failed", "error:Android build failed",
     "errexit:git commit (nothing to commit)", "errexit:git commit",
     "errexit:git tag", "errexit:git push branch", "errexit:git push tag"}

NothingFailed == \A k \in 1..Len(log) : log[k] \notin FailureLines

\* the encoding of the documentation: MAJOR * 10000 + MINOR * 100 + PATCH
Encoding(version) ==
    LET t == TripleOf(version)
    IN  t[1] * 10000 + t[2] * 100 + t[3]

\* C12: a live invocation started on a clean tree on main or master with a
\* valid version whose tag does not exist, in which no command fails and no
\* prompt is declined, ends with status 0 and the completion message; the
\* manifest shows the version, build.gradle shows the version as
\* versionName and MAJOR*10000 + MINOR*100 + PATCH as versionCode, and the
\* tag v<version> is bound to the new commit locally and on origin.
C12_CleanReleaseCompletes ==
    (/\ pc = "done"
     /\ DRY_RUN # TRUE
     /\ CleanAtStart
     /\ branch \in {"main", "master"}
     /\ validate_version(VERSION)
     /\ ~TagAtStart
     /\ NothingFailed)
    => /\ exit_code = 0
       /\ log[Len(log)] = "Release completed successfully"
       /\ DescriptorsShowVersion
       /\ DecimalValue(version_code) = Encoding(VERSION)
       /\ Len(commits) = Len(start.commits) + 1
       /\ \E t \in tags \ start.tags :
             /\ t.name = TagName(VERSION)
             /\ t.commit = Len(commits)
             /\ t \in remote_tags
       /\ remote_head = Len(commits)

\* the same, for the version 2.1.0 of the documentation's example only
CleanReleaseCompletes_2_1_0 == VERSION = V_2_1_0 => C12_CleanReleaseCompletes

Prompts == {"prompt:dirty", "prompt:branch", "prompt:release"}

\* the operator answered something other than y or Y at a prompt
Declined == InLog("reply:no")

\* C13: when the operator declines a prompt (uncommitted changes, branch,
\* or the final confirmation), the invocation ends right there with the
\* abort message and status 1, and the descriptor files, the index, the
\* history, the tags and origin's refs are as they were at its start.
C13_DeclineAbortsUnchanged ==
    Declined =>
        /\ pc = "done"
        /\ exit_code = 1
        /\ Len(log) >= 3
        /\ log[Len(log)] \in {"error:Aborted by user",
                              "error:Release cancelled by user"}
        /\ log[Len(log) - 1] = "reply:no"
        /\ log[Len(log) - 2] \in Prompts
        /\ Count("reply:no") = 1
        /\ Repo = start

C13_Witness ==
    /\ Declined
    /\ pc = "done"
    /\ log[Len(log)] = "error:Release cancelled by user"
    /\ InLog("prompt:dirty")
    /\ InLog("prompt:branch")
    /\ StatusDirty

\* C14: the exit status is 0 when the invocation completed the release or
\* printed the dry-run report, and 1 for every other outcome (validation,
\* precondition, verification or publish failure, declined prompt).
C14_ExitStatusZeroOrOne ==
    pc = "done" =>
        IF log[Len(log)] \in {"Release completed successfully",
                              "Dry run completed"}
        THEN exit_code = 0
        ELSE exit_code = 1

\* the invocation ended at the prompt p: declined, or nothing to read
StoppedAt(p) ==
    /\ pc = "done"
    /\ \E k \in 1..Len(log) :
          /\ log[k] = p
          /\ \/ k + 1 = Len(log) /\ log[k + 1] = "errexit:read"
             \/ k + 2 = Len(log) /\ log[k + 1] = "reply:no"

AnsweredYes(p) ==
    \E k \in 1..(Len(log) - 1) : log[k] = p /\ log[k + 1] = "reply:yes"

\* the check that warns with w and asks with p lets the invocation go on
\* exactly when --force is set or the operator answered yes
Overridable(w, p) ==
    InLog(w) =>
        /\ ~StoppedAt(p) <=> (FORCE = TRUE \/ AnsweredYes(p))
        /\ FORCE # TRUE => InLog(p)
        /\ Before(w, p)

\* C15: uncommitted changes and a branch other than main or master are
\* overridable: the invocation goes past each of them exactly when --force
\* is set or the operator answers yes at that check's prompt; with --force
\* no prompt at all is issued in the invocation.
C15_ForceOrYesOverrides ==
    Invoked =>
        /\ Overridable("warning:You have uncommitted changes", "prompt:dirty")
        /\ Overridable("warning:Not on main/master branch", "prompt:branch")
        /\ FORCE = TRUE =>
              \A k \in 1..Len(log) :
                  log[k] \notin Prompts \cup {"reply:yes", "reply:no",
                                              "errexit:read", "summary"}
        /\ (start.index # start.commits[Len(start.commits)]
               \/ start.other # start.index.other \/ start.untracked)
             /\ pc \notin {"validate_version", "check_dependencies",
                           "check_git_status"}
             /\ InLog("dependencies_found")
            => InLog("warning:You have uncommitted changes")
        /\ branch = "feature"
             /\ pc \notin PreflightSteps
             /\ (pc = "done" => InLog("tag_free"))
            => InLog("warning:Not on main/master branch")

C15_Witness ==
    /\ FORCE = TRUE
    /\ pc = "done"
    /\ exit_code = 0
    /\ InLog("Release completed successfully")
    /\ InLog("warning:You have uncommitted changes")
    /\ InLog("warning:Not on main/master branch")

\* the invocation has come to the dry-run report
AtDryRunReport ==
    /\ DRY_RUN = TRUE
    /\ pc = "dry_run" \/ InLog("warning:DRY RUN MODE - No changes will be made")

\* lines printed by the stages that write, test, build or publish
LiveStageLines ==
    {"Updated package.json", "Updated Android build.gradle", "errexit:jq",
     "errexit:grep", "warning:Skipping tests (--skip-tests)",
     "All tests passed", "error:Tests failed",
     "warning:Skipping build verification (--skip-build)",
     "Android build successful", "error:Android build failed", "git add",
     "Changes committed", "errexit:git commit",
     "errexit:git commit (nothing to commit)", "Tag created",
     "errexit:git tag", "Pushed commit", "errexit:git push branch",
     "Pushed tag", "errexit:git push tag", "Release completed successfully"}

DryRunReportState ==
    AtDryRunReport =>
        /\ pc \in {"dry_run", "done"}
        /\ Repo = start
        /\ \A k \in 1..Len(log) : log[k] \notin LiveStageLines
        /\ log[1] = "version_valid"
        /\ InLog("dependencies_found")
        /\ InLog("tag_free")
        /\ ~TagResolves(TagName(VERSION), tags)
        /\ IF StatusDirty
           THEN /\ InLog("warning:You have uncommitted changes")
                /\ FORCE = TRUE \/ AnsweredYes("prompt:dirty")
           ELSE InLog("Working directory is clean")
        /\ branch \notin {"main", "master"} =>
              /\ InLog("warning:Not on main/master branch")
              /\ FORCE = TRUE \/ AnsweredYes("prompt:branch")
        /\ ~InLog("prompt:release")
        /\ pc = "done" =>
              /\ exit_code = 0
              /\ log[Len(log)] = "Dry run completed"

\* C16: the dry-run report is reached only after the version was found
\* valid, the working-tree and branch checks passed or were overridden and
\* the tag was found free; from there the only step is the report followed
\* by exit status 0, with no write, no test or build command, no commit,
\* tag or push.
C16_DryRunReportIsTerminal ==
    [][/\ (pc = "dry_run" /\ DRY_RUN = TRUE) =>
              /\ pc' = "done"
              /\ exit_code' = 0
              /\ Repo' = Repo
       /\ DryRunReportState']_vars

C16_Witness ==
    /\ AtDryRunReport
    /\ pc = "done"
    /\ exit_code = 0
    /\ AnsweredYes("prompt:dirty")
    /\ AnsweredYes("prompt:branch")
    /\ SKIP_TESTS = FALSE

\* the invocation is live and its verification stage is behind it
Verified == DRY_RUN # TRUE /\ InLog("git add")

ValidatedOf(sh) == sh.pc \notin {"idle", "validate_version"}

AcceptedOf(sh) == InLogOf(sh, "version_valid")

VersionCodeLines(gradle) ==
    {gradle[n] : n \in {k \in 1..Len(gradle) :
                            Contains(gradle[k], VersionCodePat)}}

\* C19: the tag that the tag check looks for, that git tag creates and
\* that is pushed is named v followed by the version string as given, the
\* label included, while the versionCode depends on the numeric triple
\* only: 1.0.0 and 1.0.0-beta get two tags of different names, on commits
\* with the same versionCode.
C19_TagKeepsLabelCodeDropsIt ==
    /\ \A t \in tags \cup remote_tags : t.name = <<"v">> \o t.version
    /\ InLog("error:Tag already exists") =>
          \E t \in start.tags : t.version = VERSION
    /\ InLog("tag_free") => \A t \in start.tags : t.version # VERSION
    /\ InLog("Tag created") =>
          \E t \in tags \ start.tags :
              t.version = VERSION /\ t.name = <<"v">> \o VERSION
    /\ InLog("Pushed tag") =>
          \E t \in remote_tags \ start.remote_tags :
              t.version = VERSION /\ t.name = <<"v">> \o VERSION
    /\ \A t1, t2 \in tags :
          /\ t1.version # t2.version => t1.name # t2.name
          /\ TripleOf(t1.version) = TripleOf(t2.version) =>
                /\ VersionCodeLines(commits[t1.commit].gradle)
                      = VersionCodeLines(commits[t2.commit].gradle)
                /\ VersionCodeLines(commits[t1.commit].gradle) # {}

C19_Witness ==
    /\ pc = "done"
    /\ exit_code = 0
    /\ VERSION = V_1_0_0_beta
    /\ \E t1, t2 \in remote_tags :
          /\ t1.version = V_1_0_0 /\ t2.version = V_1_0_0_beta
          /\ t1.commit = 2 /\ t2.commit = 3
          /\ t1.name # t2.name

ManifestShowsVersion ==
    \E n \in 1..Len(PACKAGE_JSON) :
        Contains(PACKAGE_JSON[n], VersionPat \o VERSION \o <<Q>>)

\* C20: when update_package_json has reported success and the invocation
\* goes on, the manifest's version field is the version; when
\* update_android_version has reported success and the invocation goes
\* on, build.gradle's versionName is the version and its versionCode the
\* computed code as well.  A field that could not be set stops the
\* invocation instead.
C20_SuccessMeansFieldsSet ==
    /\ (pc = "update_android_version" /\ InLog("Updated package.json"))
          => ManifestShowsVersion
    /\ (pc = "run_tests" /\ InLog("Updated Android build.gradle"))
          => DescriptorsShowVersion

\* the controller state of the invocation, by the part of perform_release
\* it is in; a confirmation that is not asked for is no state of its own
ControllerState ==
    CASE pc = "idle" -> "Idle"
      [] pc = "validate_version" -> "Validating"
      [] pc \in {"check_dependencies", "check_git_status", "check_branch",
                 "check_tag_exists"} -> "PreflightChecking"
      [] pc = "confirm" ->
            IF DRY_RUN # TRUE /\ FORCE # TRUE THEN "Confirming"
            ELSE "PreflightChecking"
      [] pc = "dry_run" ->
            IF DRY_RUN = TRUE THEN "DryRunReporting" ELSE "Mutating"
      [] pc \in {"update_package_json", "update_android_version"} ->
            "Mutating"
      [] pc \in {"run_tests", "verify_build"} -> "Verifying"
      [] pc \in {"git_add", "git_commit", "create_tag", "push_branch",
                 "push_tag"} -> "Publishing"
      [] pc = "success" -> "Done"
      [] OTHER -> IF exit_code = 0 THEN "Done" ELSE "Aborted"

\* the transitions of the controller
ControllerEdges ==
    {<<"Idle", "Validating">>, <<"Idle", "Done">>, <<"Idle", "Aborted">>,
     <<"Validating", "PreflightChecking">>,
     <<"PreflightChecking", "DryRunReporting">>,
     <<"PreflightChecking", "Confirming">>,
     <<"PreflightChecking", "Mutating">>,
     <<"DryRunReporting", "Done">>,
     <<"Confirming", "Mutating">>,
     <<"Mutating", "Verifying">>,
     <<"Verifying", "Publishing">>,
     <<"Publishing", "Done">>,
     <<"Done", "Idle">>, <<"Aborted", "Idle">>}
      \cup {<<c, "Aborted">> : c \in {"Validating", "PreflightChecking",
                                       "Confirming", "Mutating", "Verifying",
                                       "Publishing"}}

ControllerStep ==
    /\ ControllerState' # ControllerState =>
          <<ControllerState, ControllerState'>> \in ControllerEdges
    /\ DRY_RUN' = TRUE =>
          ControllerState' \notin {"Confirming", "Mutating", "Verifying",
                                   "Publishing"}
    /\ ControllerState = "Idle" /\ ControllerState' \in {"Done", "Aborted"}
          => InLog("usage")'

\* a step that ends the invocation with a failure
AbortStep == NextP /\ pc' = "done" /\ exit_code' # 0

\* C21, as stated: the controller goes through Validating,
\* PreflightChecking, DryRunReporting or Confirming, then (live only)
\* Mutating, Verifying, Publishing, Done, in this order, no state twice,
\* and it can go to Aborted from every state except Done, the dry-run
\* reporting state included.
C21_AbortedFromEveryStateButDone ==
    [][/\ ControllerStep
       /\ ControllerState' = "DryRunReporting" => (ENABLED AbortStep)']_vars

\* C21, amended: the same order of states, and Aborted can be reached from
\* every state except DryRunReporting and Done: the dry-run report has no
\* failing step, its only successor is Done.
C21_AbortedFromEveryStateButReportAndDone ==
    [][/\ ControllerStep
       /\ ControllerState' \in {"DryRunReporting", "Done", "Aborted"}
             => ~(ENABLED AbortStep)'
       /\ \/ pc' = "validate_version" /\ ~validate_version(VERSION')
          \/ pc' \in {"check_dependencies", "git_commit", "push_branch",
                       "push_tag"}
          \/ pc' = "confirm" /\ ControllerState' = "Confirming"
          \/ pc' = "update_package_json" /\ USE_JQ' # TRUE
                /\ PACKAGE_JSON' = ManifestNoVersion
          \/ pc' = "run_tests" /\ SKIP_TESTS' # TRUE
          => (ENABLED AbortStep)']_vars

C21_Witness ==
    /\ pc = "done"
    /\ exit_code = 1
    /\ log[Len(log)] = "errexit:grep"
    /\ FORCE = FALSE
    /\ AnsweredYes("prompt:release")
    /\ AnsweredYes("prompt:branch")

MutationSteps == {"update_package_json", "update_android_version"}

\* C22: a step of the descriptor mutation stage changes nothing but the
\* content of package.json and build.gradle: the index, the history, the
\* local tags, origin's refs and the other files of the working tree stay
\* as they are; the index changes only at git add and the history only at
\* git commit, both in commit_version_changes.
C22_MutationTouchesOnlyDescriptors ==
    [][/\ pc \in MutationSteps =>
             /\ UNCHANGED <<treeVars, gitVars, remoteVars>>
             /\ pc = "update_package_json" => UNCHANGED ANDROID_BUILD_GRADLE
             /\ pc = "update_android_version" => UNCHANGED PACKAGE_JSON
             /\ pc' = "run_tests" =>
                   [Repo EXCEPT !.pkg = start.pkg, !.gradle = start.gradle]'
                      = start'
       /\ pc \notin MutationSteps => UNCHANGED fileVars
       /\ index' # index => pc = "git_add"
       /\ commits' # commits => pc = "git_commit"]_vars

C22_Witness ==
    /\ pc = "run_tests"
    /\ PACKAGE_JSON # start.pkg
    /\ ANDROID_BUILD_GRADLE # start.gradle
    /\ CleanAtStart
    /\ index = start.index
    /\ StatusDirty

\* the value of the top-level member key of a manifest, << >> if none
MemberValue(file, key) ==
    LET r == JqParse(file)
        hits == {k \in 1..Len(r.members) : r.members[k][1] = key}
    IN  IF r.ok /\ hits # {} THEN r.members[Min(hits)][2] ELSE << >>

\* the descriptors committed at the start already show the version
HeadHoldsVersion ==
    LET head == start.commits[Len(start.commits)]
    IN  /\ MemberValue(head.pkg, VersionName) = VERSION
        /\ \E n \in 1..Len(head.gradle) :
              head.gradle[n] = VersionCodePat \o VersionCodeOf(VERSION)
        /\ \E n \in 1..Len(head.gradle) :
              head.gradle[n] = VersionNamePat \o VERSION \o <<Q>>

\* C23: when the committed descriptors already show the version (clean
\* tree, no tag of the version), a live invocation for it leaves both files
\* as they are in the mutation stage, git commit fails with nothing to
\* commit, the invocation ends with a failure, and no commit or tag is
\* made and nothing is pushed.
C23_SameVersionNothingToCommit ==
    (Invoked /\ VERSION # << >> /\ HeadHoldsVersion /\ CleanAtStart
       /\ ~TagAtStart /\ DRY_RUN # TRUE) =>
        /\ PACKAGE_JSON = start.pkg
        /\ ANDROID_BUILD_GRADLE = start.gradle
        /\ Repo = start
        /\ pc \notin {"create_tag", "push_branch", "push_tag", "success"}
        /\ pc = "done" => exit_code # 0
        /\ (pc = "done" /\ InLog("git add")) =>
              log[Len(log)] = "errexit:git commit (nothing to commit)"

\* the same, for the manifest laid out the way jq prints it
SameVersionNothingToCommit_Printed ==
    start.pkg = ManifestAt_1_0_1 => C23_SameVersionNothingToCommit

\* the last line of each outcome
OutcomeLines ==
    [Completed |-> {"Release completed successfully"},
     DryRunReport |-> {"Dry run completed"},
     AbortedByUser |-> {"error:Aborted by user",
                        "error:Release cancelled by user", "errexit:read"},
     AbortedByPrecondition |->
        {"info:Version must follow semantic versioning (e.g., 1.0.0, 1.2.3-beta)",
         "error:Missing required dependencies", "error:Tag already exists"},
     FailedAtStage |->
        {"errexit:jq", "errexit:grep", "error:Tests failed",
         "error:Android build failed", "errexit:git commit",
         "errexit:git commit (nothing to commit)", "errexit:git tag",
         "errexit:git push branch", "errexit:git push tag"}]

Outcomes == DOMAIN OutcomeLines

AllOutcomeLines == UNION {OutcomeLines[o] : o \in Outcomes}

OneOutcome ==
    /\ Cardinality({o \in Outcomes : log[Len(log)] \in OutcomeLines[o]}) = 1
    /\ Cardinality({k \in 1..Len(log) : log[k] \in AllOutcomeLines}) = 1
    /\ exit_code = 0 <=>
          log[Len(log)] \in OutcomeLines.Completed
                               \cup OutcomeLines.DryRunReport

\* C24: when every command and every prompt returns, an invocation comes
\* to its end; at the end it has exactly one of the outcomes Completed,
\* dry-run report, aborted by user, aborted by precondition, failed at a
\* stage; and once the outcome is there, nothing in the repository, the
\* files or on origin changes any more.
C24_TerminatesWithOneOutcome ==
    /\ [](Invoked => <>(pc = "done"))
    /\ [](pc = "done" => OneOutcome)
    /\ [][pc = "done" => (pc' = "idle" /\ Repo' = Repo)]_vars

C24_Witness ==
    /\ pc = "done"
    /\ log[Len(log)] = "errexit:git push tag"
    /\ AnsweredYes("prompt:release")
    /\ InLog("All tests passed")
    /\ Len(commits) = 2

\* the lines of the output that show an operator's answer or the result of
\* an external command
ExternalLines ==
    {"reply:yes", "reply:no", "errexit:read",
     "error:Missing required dependencies", "dependencies_found",
     "All tests passed", "error:Tests failed",
     "Android build successful", "error:Android build failed",
     "errexit:jq", "errexit:grep", "errexit:git commit", "Changes committed",
     "errexit:git tag", "Tag created",
     "errexit:git push branch", "Pushed commit",
     "errexit:git push tag", "Pushed tag"}

IsExternal(line) == line \in ExternalLines

\* the exit status of the external command that ended the run, 0 if none did
FailedCommandStatus(lg, code) ==
    IF lg # << >> /\ lg[Len(lg)] \in {"errexit:jq", "errexit:git commit",
                                      "errexit:git tag",
                                      "errexit:git push branch",
                                      "errexit:git push tag"}
    THEN code
    ELSE 0

\* the second run got the answers and the command results of the first
SameAnswersAndResults ==
    /\ HasResult
    /\ USE_JQ = parked.USE_JQ
    /\ SelectSeq(log, IsExternal) = SelectSeq(parked.log, IsExternal)
    /\ FailedCommandStatus(log, exit_code)
          = FailedCommandStatus(parked.log, parked.exit_code)

Triple(version) ==
    LET f == AwkFields(SedStripLabel(version))
    IN  <<DecimalValue(f[1]), DecimalValue(f[2]), DecimalValue(f[3])>>

LexLess(a, b) ==
    \/ a[1] < b[1]
    \/ a[1] = b[1] /\ a[2] < b[2]
    \/ a[1] = b[1] /\ a[2] = b[2] /\ a[3] < b[3]

MinorPatchSmall(version) ==
    Triple(version)[2] <= 99 /\ Triple(version)[3] <= 99

\* the versionCode that build.gradle has, as the last invocation wrote it
WrittenVersionCode(gradle) ==
    LET line == CHOOSE l \in VersionCodeLines(gradle) : TRUE
    IN  SubSeq(line, Len(VersionCodePat) + 1, Len(line))

\* C26: for accepted versions with minor and patch at most 99 the
\* versionCode grows strictly with (major, minor, patch) in lexicographic
\* order, so two versions get the same versionCode only when their numeric
\* triples are equal, that is when they differ in the label alone (or in
\* the spelling of the same numbers, 09 for 9).
C26_EncodingStrictlyIncreasing ==
    (/\ pc = "run_tests"
     /\ last_applied # NoneApplied
     /\ MinorPatchSmall(VERSION)
     /\ MinorPatchSmall(last_applied.version)) =>
        LET a == Triple(last_applied.version)
            b == Triple(VERSION)
            ca == WrittenVersionCode(last_applied.gradle)
            cb == WrittenVersionCode(ANDROID_BUILD_GRADLE)
        IN  /\ IsDigits(ca) /\ IsDigits(cb) /\ cb = version_code
            /\ LexLess(a, b) => DecimalValue(ca) < DecimalValue(cb)
            /\ LexLess(b, a) => DecimalValue(cb) < DecimalValue(ca)
            /\ (ca = cb \/ DecimalValue(ca) = DecimalValue(cb)) => a = b

C26_Witness ==
    /\ pc = "run_tests"
    /\ last_applied # NoneApplied
    /\ last_applied.version = V_0_99_99_rc
    /\ VERSION = V_1_0_0
    /\ WrittenVersionCode(last_applied.gradle) = <<"0", "9", "9", "9", "9">>
    /\ WrittenVersionCode(ANDROID_BUILD_GRADLE) = <<"1", "0", "0", "0", "0">>

\* the invocation has gone through the check of uncommitted changes
PastStatusCheck ==
    /\ InLog("dependencies_found")
    /\ pc # "check_git_status"

\* the invocation has gone through the branch check
PastBranchCheck ==
    /\ PastStatusCheck
    /\ ~StoppedAt("prompt:dirty")
    /\ pc # "check_branch"

\* C27: a dry run without --force still asks about uncommitted changes and
\* about a branch other than main or master, and a decline at either
\* prompt ends it with status 1 and without the dry-run report; the final
\* "Continue with release?" is never asked in a dry run, with or without
\* --force.
C27_DryRunStillAsksPreflight ==
    (Invoked /\ DRY_RUN = TRUE) =>
        /\ ~InLog("prompt:release")
        /\ FORCE # TRUE =>
              /\ (PastStatusCheck /\ StatusDirty) => InLog("prompt:dirty")
              /\ (PastBranchCheck /\ branch \notin {"main", "master"}) =>
                    InLog("prompt:branch")
        /\ \A p \in {"prompt:dirty", "prompt:branch"} :
              (InLog(p) /\ ~AnsweredYes(p) /\ pc # "idle") =>
                  /\ StoppedAt(p)
                  /\ exit_code = 1
                  /\ ~InLog("Dry run completed")
                  /\ ~InLog("warning:DRY RUN MODE - No changes will be made")
        /\ (pc = "done" /\ InLog("tag_free")) =>
              /\ InLog("Dry run completed")
              /\ exit_code = 0

C27_Witness ==
    /\ DRY_RUN = TRUE
    /\ FORCE = FALSE
    /\ pc = "done"
    /\ exit_code = 1
    /\ AnsweredYes("prompt:dirty")
    /\ StoppedAt("prompt:branch")
    /\ InLog("reply:no")

\* when the invocation started, origin had the tag of the version and the
\* local repository did not
OriginOnlyAtStart ==
    /\ Invoked
    /\ TagResolves(TagName(VERSION), start.remote_tags)
    /\ ~TagResolves(TagName(VERSION), start.tags)

\* C28: the tag check looks at the local repository only: when origin has
\* v<version> and the local repository does not, the preflight passes, and
\* the descriptor mutation, the commit, the local tag and the branch push
\* all happen before git push of the tag is refused; the invocation then
\* ends with a failure, and origin's tag stays on its original commit.
C28_OriginTagFoundOnlyAtPush ==
    OriginOnlyAtStart =>
        /\ ~InLog("error:Tag already exists")
        /\ pc \notin {"validate_version", "check_dependencies",
                      "check_git_status", "check_branch",
                      "check_tag_exists", "done"} => InLog("tag_free")
        /\ remote_tags = start.remote_tags
        /\ pc # "success"
        /\ ~InLog("Pushed tag")
        /\ pc = "done" => exit_code # 0
        /\ pc = "push_tag" =>
              /\ InLog("Updated package.json")
              /\ InLog("Updated Android build.gradle")
              /\ Len(commits) = Len(start.commits) + 1
              /\ HeadTree # start.commits[Len(start.commits)]
              /\ HeadTree.pkg = PACKAGE_JSON
              /\ HeadTree.gradle = ANDROID_BUILD_GRADLE
              /\ NewTag \in tags
              /\ remote_head = Len(commits)
              /\ ENABLED PushTag
        /\ InLog("Pushed commit") =>
              (pc = "done" =>
                  /\ log[Len(log)] = "errexit:git push tag"
                  /\ NewTag \in tags
                  /\ remote_head = Len(commits)
                  /\ Before("Updated package.json", "Changes committed")
                  /\ Before("Changes committed", "Tag created")
                  /\ Before("Tag created", "Pushed commit")
                  /\ Before("Pushed commit", "errexit:git push tag"))

C28_Witness ==
    /\ OriginOnlyAtStart
    /\ pc = "done"
    /\ log[Len(log)] = "errexit:git push tag"
    /\ remote_tags = {OriginTag}
    /\ remote_head = 2
    /\ \E t \in tags : t.name = OriginTag.name /\ t.commit = 2

\* the top-level members of a manifest, as pairs of key and value
Fields(file) ==
    LET r == JqParse(file)
    IN  {r.members[k] : k \in 1..Len(r.members)}

SameFields(f, g) == JqParse(f).ok /\ JqParse(g).ok /\ Fields(f) = Fields(g)

\* update_package_json has rewritten the manifest the invocation started
\* with, which is a JSON object
ManifestRewritten ==
    /\ JqParse(start.pkg).ok
    /\ \/ pc = "update_android_version"
       \/ pc = "done" /\ log[Len(log)] = "errexit:grep"

\* what the strategy that the invocation did not use makes of the manifest
OtherStrategy ==
    IF USE_JQ = TRUE THEN SedPackageJson(start.pkg, VERSION)
    ELSE JqSetVersion(start.pkg, VERSION).out

\* C29: updating the manifest through jq and through the sed fallback is
\* equivalent: for every manifest and accepted version both leave the same
\* value of the top-level version member, the version, and the same values
\* of every other member.
C29_JqAndSedEquivalent ==
    ManifestRewritten =>
        /\ MemberValue(PACKAGE_JSON, VersionName) = VERSION
        /\ SameFields(PACKAGE_JSON, OtherStrategy)

\* the same, for the manifest of the documentation, one member per line
JqAndSedEquivalent_OneMemberPerLine ==
    start.pkg = ManifestBase => C29_JqAndSedEquivalent

IsOptionWord(w) == w # << >> /\ Head(w) = "-"

\* places of the command line with -h or --help
HelpAt == {k \in 1..Len(ARGV) : ARGV[k] \in {OptHelpShort, OptHelp}}

\* places with an option that is none of the script's
UnknownAt ==
    {k \in 1..Len(ARGV) :
        /\ IsOptionWord(ARGV[k])
        /\ ARGV[k] \notin {OptHelpShort, OptHelp, OptSkipTests, OptSkipBuild,
                           OptPrerelease, OptDryRun, OptForce}}

\* places with a positional argument: a word that does not start with -
PositionalAt == {k \in 1..Len(ARGV) : ~IsOptionWord(ARGV[k])}

\* places where the command line is in error: an unknown option, a
\* positional argument after the first
ErrorAt ==
    UnknownAt \cup {k \in PositionalAt : \E j \in PositionalAt : j < k}

HelpFirst ==
    /\ HelpAt # {}
    /\ \A e \in ErrorAt : Min(HelpAt) < e

ParseFails ==
    /\ ~HelpFirst
    /\ ErrorAt # {} \/ PositionalAt = {}

\* the invocation ended in main, before perform_release, with the usage
\* text and nothing else done
EndedInMain(code) ==
    /\ pc = "done"
    /\ exit_code = code
    /\ log[Len(log)] = "usage"
    /\ \A k \in 1..Len(log) :
          log[k] \in {"usage", "error:Unknown option",
                      "error:Multiple versions specified",
                      "error:Version number required"}
    /\ (code = 0) = (log = <<"usage">>)
    /\ Repo = start

\* C30: argument parsing fails with exit code 1, before the version is
\* validated and with no side effect, when no version is given, when more
\* than one positional argument is given, or when an unknown option is
\* given; -h or --help met before any such error ends the script with exit
\* code 0 and no side effect, also when a version was given; and the flags
\* have the same effect wherever they stand relative to the version.
C30_ArgumentParsing ==
    Invoked =>
        /\ ParseFails => EndedInMain(1)
        /\ HelpFirst => EndedInMain(0)
        /\ (~ParseFails /\ ~HelpFirst) =>
              /\ VERSION = ARGV[Min(PositionalAt)]
              /\ DRY_RUN = (\E k \in 1..Len(ARGV) : ARGV[k] = OptDryRun)
              /\ FORCE = (\E k \in 1..Len(ARGV) : ARGV[k] = OptForce)
              /\ SKIP_TESTS = (\E k \in 1..Len(ARGV) : ARGV[k] = OptSkipTests)
              /\ SKIP_BUILD = (\E k \in 1..Len(ARGV) : ARGV[k] = OptSkipBuild)
              /\ PRERELEASE = (\E k \in 1..Len(ARGV) : ARGV[k] = OptPrerelease)

\* the same, for command lines without an empty word
ArgumentParsing_NoEmptyWord ==
    (\A k \in 1..Len(ARGV) : ARGV[k] # << >>) => C30_ArgumentParsing

====
